---- MODULE Spec2Model ----
(***************************************************************************)
(* A model of the picpaygo backend: the credit consumption of              *)
(* create-generation (services/generate/endpoints.py), the Stripe webhook  *)
(* fulfillment (services/webhooks/endpoints.py), and the ownership of      *)
(* Generation rows (services/generate/functions/jobs.py,                   *)
(* services/auth/functions/session.py).                                    *)
(*                                                                         *)
(* The database is PostgreSQL at READ COMMITTED.  A table variable holds   *)
(* the committed rows; a transaction keeps its uncommitted writes in its   *)
(* own record and holds the row locks of the rows it wrote or selected     *)
(* FOR UPDATE until it commits or rolls back.  A statement that needs a    *)
(* row lock another transaction holds is not enabled until the lock is     *)
(* released, and then sees the committed row.                              *)
(***************************************************************************)
EXTENDS Integers, FiniteSets, Sequences, TLC

VARIABLES
    users,          \* ids of the rows of table users
    ip_credits,     \* table ip_credits: ip_address -> free_remaining
    credits,        \* table credits: user_id -> balance
    generations,    \* table generations: id -> row
    gen_req,        \* the executions of generate_image: request -> locals
    DEFAULT_FREE_CREDITS,   \* config: the environment's FREE_CREDITS
    payments,       \* table payments: stripe_session_id -> row
    credit_ledger,  \* table credit_ledger: the rows in insertion order
    ful,            \* the executions of _fulfill_checkout_session
    meta,           \* the metadata of each session's confirmation event
    generation_assets,  \* table generation_assets: <<generation_id, kind>>
    job_queue,      \* jobs.py job_queue: the job ids, oldest first
    workers,        \* the tasks of _worker_loop: worker -> locals
    dequeued,       \* ghost: job id -> how many times job_queue.get() gave it
    job_tasks,      \* jobs.py job_tasks: the tasks start_workers created
    guest_sessions, \* table guest_sessions: token_hash -> id
    gs_req,         \* the executions of GuestSessionMiddleware.dispatch
    rotations,      \* ghost: the rotations done: old hash, new hash, id
    last_seen_at,   \* table guest_sessions: id -> last_seen_at
    reg,            \* the executions of register: execution -> locals
    con,            \* the executions of consume_credits: execution -> locals
    enqueued,       \* ghost: the job ids in the order of job_queue.put()
    now,            \* the database clock: the value of NOW()
    last,           \* ghost: what the last statement or handler did
    free0,          \* ghost: each origin's free balance in the initial state
    bal0            \* ghost: each account's paid balance in the initial state

vars == <<users, ip_credits, credits, generations, gen_req,
          DEFAULT_FREE_CREDITS, payments, credit_ledger, ful, meta,
          generation_assets, job_queue, workers, dequeued, job_tasks,
          guest_sessions, gs_req, rotations, last_seen_at, reg, con, enqueued, now,
          last, free0, bal0>>

\* The state of the payment engine, the state of the job queue and its
\* workers, the state no handler writes, and the state that neither the credit
\* transaction nor the payment engine nor the queries write.
payVars == <<payments, credit_ledger, ful, meta>>
jobVars == <<generation_assets, job_queue, workers, dequeued>>
constVars == <<users, DEFAULT_FREE_CREDITS, now, free0, bal0>>
guestVars == <<guest_sessions, gs_req, rotations, last_seen_at>>
restVars == <<job_tasks, guestVars, reg, con, enqueued, constVars>>
fixedVars == <<jobVars, restVars>>

NULL == "NULL"
\* The NULL of a timestamp column; <<t>> is the timestamp t.
NoTime == <<>>
NoOp == [op |-> "none"]

\* A table is a function whose domain is the set of the keys of its rows.
HasRow(table, key) == key \in DOMAIN table
Put(table, key, row) ==
    [k \in DOMAIN table \cup {key} |-> IF k = key THEN row ELSE table[k]]
Tables(Keys, Rows) == UNION {[K -> Rows] : K \in SUBSET Keys}

\* ---- bounds ----
NumReq == 2         \* executions of generate_image
MaxFree == 1        \* largest free_remaining of an origin in the initial state
MaxBal == 1         \* largest paid balance of an account in the initial state
NumFulfill == 2     \* executions of _fulfill_checkout_session
MaxCredits == 2     \* largest number of credits of a pack
MaxTime == 1        \* largest value of the database clock
NumGen == 2         \* largest number of Generation rows of the history
NumJobs == 1        \* executions of generate_image the workers get jobs from
NumResolve == 3     \* executions of GuestSessionMiddleware.dispatch
NumTokens == 2      \* guest tokens generate_guest_token() returns
NumRegister == 1    \* executions of register
NumConsume == 2     \* executions of consume_credits

Req == 1..NumReq
Ful == 1..NumFulfill
Origins == {"ip1", "ip2"}
Users == {"u1", "u2"}
GuestIds == {"g1", "g2"}

\* config.py: JOB_WORKERS, the number of worker tasks start_workers creates
JOB_WORKERS == 2
Workers == 1..JOB_WORKERS

\* A worker that waits in job_queue.get().
IdleWorker == [pc |-> "get", job_id |-> 0, error_message |-> NULL]

\* ---- helpers ----
RECURSIVE SumSet(_, _)
\* The sum of f(x) over the elements of a finite set.
SumSet(f(_), S) ==
    IF S = {} THEN 0
    ELSE LET x == CHOOSE y \in S : TRUE IN f(x) + SumSet(f, S \ {x})

\* ---- table ip_credits ----

\* The free balance an origin has: a missing row is created with the default.
EffectiveFree(ip) ==
    IF HasRow(ip_credits, ip) THEN ip_credits[ip] ELSE DEFAULT_FREE_CREDITS

\* INSERT ... VALUES ($2 - 1) ON CONFLICT DO UPDATE SET free_remaining - 1
\* RETURNING free_remaining
IpUpsertDecrement(ip) ==
    IF HasRow(ip_credits, ip) THEN ip_credits[ip] - 1
    ELSE DEFAULT_FREE_CREDITS - 1

IpCreditUsedOffByOne(free_remaining) == free_remaining >= -1
\* ip_credit_used = ip_result["free_remaining"] >= 0
IpCreditUsed(free_remaining) == free_remaining >= 0

RestoreFreeNone(free_remaining) == free_remaining
\* UPDATE ip_credits SET free_remaining = free_remaining + 1
RestoreFree(free_remaining) == free_remaining + 1

\* ---- table credits ----

\* CHECK (balance >= 0)
CreditsCheck(balance) == balance >= 0

\* user_credits = credit_row["balance"] if credit_row else 0
UserCredits(u) == IF HasRow(credits, u) THEN credits[u] ELSE 0

PaidDebitNone(balance) == balance
\* UPDATE credits SET balance = balance - 1
PaidDebit(balance) == balance - 1

\* ---- generate_image ----

InTx == {"restore", "lock_credits", "check"}

IdleReq == [pc |-> "idle", ip |-> NULL, user_id |-> NULL,
            guest_session_id |-> NULL, free |-> 0, ip_credit_used |-> FALSE,
            bal |-> 0, user_credit_used |-> FALSE, locked_credits |-> FALSE,
            created_at |-> 0]

\* A request that has left the transaction block: the uncommitted values are
\* gone.
DoneReq(q, pc) ==
    [q EXCEPT !.pc = pc, !.free = 0, !.bal = 0, !.locked_credits = FALSE]

OwnerGuestKept(user_id, guest_session_id) == guest_session_id
\* Line 127: guest_session_id = guest_session_id if not user_id else None
OwnerGuest(user_id, guest_session_id) ==
    IF user_id # NULL THEN NULL ELSE guest_session_id

\* The row lock of ip_credits[ip] is held by the transaction that upserted it.
IpLockFree(ip) ==
    \A r \in Req : ~(gen_req[r].pc \in InTx /\ gen_req[r].ip = ip)

\* The row lock of credits[u] is held from SELECT ... FOR UPDATE (only an
\* existing row can be locked), or from the upsert of a fulfillment, to the end
\* of the transaction.
CreditsLockFree(u) ==
    /\ \A r \in Req : ~(gen_req[r].pc \in InTx /\ gen_req[r].user_id = u
                        /\ gen_req[r].locked_credits)
    /\ \A f \in Ful : ~(ful[f].pc = "fulfill" /\ ful[f].user_id = u
                        /\ ful[f].ledger_inserted)

\* GenClaimIp without the enclosing conn.transaction(): the decrement-or-insert
\* is committed by itself.
GenClaimIpAutocommit(r, ip, user, guest) ==
    /\ gen_req[r].pc = "idle"
    /\ \A p \in Req : p < r => gen_req[p].pc # "idle"
    /\ user # NULL => user \in users
    /\ IpLockFree(ip)
    /\ LET fr == IpUpsertDecrement(ip)
           used == IpCreditUsed(fr)
       IN /\ gen_req' = [gen_req EXCEPT ![r] =
                 [pc |-> IF used THEN "check" ELSE "restore",
                  ip |-> ip, user_id |-> user,
                  guest_session_id |-> OwnerGuest(user, guest),
                  free |-> fr, ip_credit_used |-> used,
                  bal |-> 0, user_credit_used |-> FALSE,
               locked_credits |-> FALSE, created_at |-> now]]
          /\ ip_credits' = Put(ip_credits, ip, fr)
    /\ last' = NoOp
    /\ UNCHANGED <<credits, generations, payVars, fixedVars>>

\* Lines 116-141: resolve the caller, BEGIN, and the decrement-or-insert of the
\* origin's free credits.
GenClaimIp(r, ip, user, guest) ==
    /\ gen_req[r].pc = "idle"
    /\ \A p \in Req : p < r => gen_req[p].pc # "idle"
    /\ user # NULL => user \in users
    /\ IpLockFree(ip)
    /\ LET fr == IpUpsertDecrement(ip)
           used == IpCreditUsed(fr)
       IN gen_req' = [gen_req EXCEPT ![r] =
              [pc |-> IF used THEN "check" ELSE "restore",
               ip |-> ip, user_id |-> user,
               guest_session_id |-> OwnerGuest(user, guest),
               free |-> fr, ip_credit_used |-> used,
               bal |-> 0, user_credit_used |-> FALSE,
               locked_credits |-> FALSE, created_at |-> now]]
    /\ last' = NoOp
    /\ UNCHANGED <<ip_credits, credits, generations, payVars, fixedVars>>

\* Lines 145-150: restore the failed decrement.
GenRestore(r) ==
    /\ gen_req[r].pc = "restore"
    /\ gen_req' = [gen_req EXCEPT
           ![r].free = RestoreFree(@),
           ![r].pc = IF gen_req[r].user_id # NULL THEN "lock_credits" ELSE "check"]
    /\ last' = NoOp
    /\ UNCHANGED <<ip_credits, credits, generations, payVars, fixedVars>>

\* Lines 152-164: lock the account's balance row, check it and decrement it.
GenLockCredits(r) ==
    LET u == gen_req[r].user_id IN
    /\ gen_req[r].pc = "lock_credits"
    /\ CreditsLockFree(u)
    /\ LET user_credits == UserCredits(u) IN
       IF user_credits >= 1
       THEN IF CreditsCheck(PaidDebit(user_credits))
            THEN gen_req' = [gen_req EXCEPT ![r].bal = PaidDebit(user_credits),
                                            ![r].user_credit_used = TRUE,
                                            ![r].locked_credits = TRUE,
                                            ![r].pc = "check"]
            ELSE \* CheckViolationError: the transaction is rolled back
                 gen_req' = [gen_req EXCEPT ![r] = DoneReq(@, "error")]
       ELSE gen_req' = [gen_req EXCEPT ![r].pc = "check",
                                       ![r].locked_credits = HasRow(credits, u)]
    /\ last' = NoOp
    /\ UNCHANGED <<ip_credits, credits, generations, payVars, fixedVars>>

\* GenCommit whose rejection commits the transaction instead of rolling it
\* back: the upserted and restored row of the origin stays.
GenCommitNoRollback(r) ==
    LET q == gen_req[r] IN
    /\ q.pc = "check"
    /\ ip_credits' = Put(ip_credits, q.ip, q.free)
    /\ IF ~q.ip_credit_used /\ ~q.user_credit_used
       THEN /\ gen_req' = [gen_req EXCEPT ![r] = DoneReq(@, "rejected")]
            /\ UNCHANGED <<credits, generations>>
       ELSE /\ credits' = IF q.user_credit_used
                          THEN Put(credits, q.user_id, q.bal)
                          ELSE credits
            /\ generations' = Put(generations, r,
                   [user_id |-> q.user_id,
                    guest_session_id |-> q.guest_session_id,
                    status |-> "queued", error_message |-> NULL,
                    completed_at |-> NoTime,
                    created_at |-> q.created_at])
            /\ gen_req' = [gen_req EXCEPT ![r] = DoneReq(@, "committed")]
    /\ last' = NoOp
    /\ UNCHANGED <<payVars, fixedVars>>

\* Lines 166-170 and the end of the transaction block: reject and roll back, or
\* insert the Generation row and commit.
GenCommit(r) ==
    LET q == gen_req[r] IN
    /\ q.pc = "check"
    /\ IF ~q.ip_credit_used /\ ~q.user_credit_used
       THEN /\ gen_req' = [gen_req EXCEPT ![r] = DoneReq(@, "rejected")]
            /\ UNCHANGED <<ip_credits, credits, generations>>
       ELSE /\ ip_credits' = Put(ip_credits, q.ip, q.free)
            /\ credits' = IF q.user_credit_used
                          THEN Put(credits, q.user_id, q.bal)
                          ELSE credits
            /\ generations' = Put(generations, r,
                   [user_id |-> q.user_id,
                    guest_session_id |-> q.guest_session_id,
                    status |-> "queued", error_message |-> NULL,
                    completed_at |-> NoTime,
                    created_at |-> q.created_at])
            /\ gen_req' = [gen_req EXCEPT ![r] = DoneReq(@, "committed")]
    /\ last' = NoOp
    /\ UNCHANGED <<payVars, fixedVars>>

\* Line 167: raise HTTPException(status_code=400, detail="Insufficient credits")
InsufficientCredits == [code |-> 400, detail |-> "Insufficient credits"]

\* consume_credits: HTTPException(status_code=400,
\* detail="Login required for paid credits")
LoginRequired == [code |-> 400, detail |-> "Login required for paid credits"]

\* The response of generate_image: the only HTTPException the credit
\* transaction raises is the one of line 167, whoever the caller is; an
\* unhandled exception is answered with status 500.
GenResponse(r) ==
    CASE gen_req[r].pc = "rejected" -> InsufficientCredits
      [] gen_req[r].pc = "enqueued" -> [code |-> 200, detail |-> "jobId"]
      [] gen_req[r].pc \in {"error", "post_failed"} ->
             [code |-> 500, detail |-> "Internal Server Error"]
      [] OTHER -> [code |-> 0, detail |-> "pending"]

\* The states of a request after its transaction has committed.
PostTx == {"committed", "asset", "enqueued", "post_failed"}

\* The request dies inside the transaction block (connection lost, process
\* killed, statement error): everything it wrote is rolled back.
GenAbort(r) ==
    /\ gen_req[r].pc \in InTx
    /\ gen_req' = [gen_req EXCEPT ![r] = DoneReq(@, "error")]
    /\ last' = NoOp
    /\ UNCHANGED <<ip_credits, credits, generations, payVars, fixedVars>>

\* ---- the payment-event source ----

SessIds == {"cs1"}

\* metadata.get("credits") is a string; int() parses it.
IntStrings == {ToString(i) : i \in -1..MaxCredits}
IntOf(str) == CHOOSE i \in -1..MaxCredits : ToString(i) = str

\* Python's "not x" of an optional string: None or "".
Missing(v) == v = NULL \/ v = ""

\* UUID(str(metadata_user_id)) succeeds: the ids of accounts, and "ghost", a
\* well-formed id of no account; "bad" is malformed.
WellFormedIds == Users \cup {"ghost"}

\* MetaValid without the check that the credits are positive.
MetaValidAnyCredits(m) ==
    /\ ~(Missing(m.user_id) \/ Missing(m.pack_id) \/ Missing(m.credits))
    /\ m.user_id \in WellFormedIds
    /\ m.credits \in IntStrings
    /\ m.pack_id # " "

\* Lines 86-125: the validation of the metadata, before the users lookup.
MetaValid(m) ==
    /\ ~(Missing(m.user_id) \/ Missing(m.pack_id) \/ Missing(m.credits))
    /\ m.user_id \in WellFormedIds
    /\ m.credits \in IntStrings /\ IntOf(m.credits) > 0
    /\ m.pack_id # " "

\* The metadata an event may carry: what checkout sends, and that with one
\* field missing or invalid.
MetaSet ==
    {[user_id |-> u, pack_id |-> "pack", credits |-> ToString(c)] :
        u \in Users, c \in 1..MaxCredits}
    \cup {[user_id |-> u, pack_id |-> "pack", credits |-> "1"] :
        u \in {NULL, "bad", "ghost"}}
    \cup {[user_id |-> "u1", pack_id |-> k, credits |-> "1"] : k \in {NULL, " "}}
    \cup {[user_id |-> "u1", pack_id |-> "pack", credits |-> c] :
        c \in {NULL, "abc", "0", "-1"}}

\* ---- table payments ----

PaymentRow(u, c, st) ==
    [user_id |-> u, credits |-> c, status |-> st, fulfilled_at |-> FALSE]

NoPayment == PaymentRow(NULL, 0, "none")

\* ---- table credit_ledger ----

\* A ledger row written without the external session id.
LedgerRowNoSession(u, delta, reason, s) ==
    [user_id |-> u, delta |-> delta, reason |-> reason,
     stripe_session_id |-> NULL]

\* INSERT INTO credit_ledger (user_id, delta, reason, stripe_session_id)
LedgerRow(u, delta, reason, s) ==
    [user_id |-> u, delta |-> delta, reason |-> reason, stripe_session_id |-> s]

\* The rows of the ledger for an external session id.
LedgerFor(s) ==
    {i \in 1..Len(credit_ledger) : credit_ledger[i].stripe_session_id = s}

\* The unique index on credit_ledger.stripe_session_id rejects the insert.
LedgerConflict(s) == LedgerFor(s) # {}

CreditsUpsertSet(u, c) == c
\* INSERT INTO credits ... ON CONFLICT (user_id) DO UPDATE
\* SET balance = credits.balance + EXCLUDED.balance
CreditsUpsertAdd(u, c) == IF HasRow(credits, u) THEN credits[u] + c ELSE c

\* ---- _fulfill_checkout_session ----

IdleFul == [pc |-> "idle", sid |-> NULL, row |-> NoPayment,
            user_id |-> NULL, credits |-> 0, ledger_inserted |-> FALSE,
            bal |-> 0, tx_failed |-> FALSE, result |-> "none"]

\* An execution that has returned or raised: its session and its outcome.
DoneFul(s, result) == [IdleFul EXCEPT !.pc = "done", !.sid = s,
                                      !.result = result]

InTxFul == {"insert", "refetch", "ledger", "credit", "fulfill"}

\* The transaction holds the lock of the payments row of its session: it
\* selected the row FOR UPDATE, or it inserted the row.
HoldsPayment(f, s) ==
    ful[f].sid = s /\ ful[f].pc \in {"ledger", "credit", "fulfill"}

PaymentLockFree(s) == \A f \in Ful : ~HoldsPayment(f, s)

\* A statement of a transaction in which an earlier statement failed raises
\* InFailedSQLTransactionError: conn.transaction() opens no savepoint.
StatementRuns(f) == ~ful[f].tx_failed

\* FulSelect without the return on a fulfilled Payment.
FulSelectNoReplayGuard(f, s) ==
    /\ ful[f].pc = "idle"
    /\ \A p \in Ful : p < f => ful[p].pc # "idle"
    /\ IF HasRow(payments, s)
       THEN /\ PaymentLockFree(s)
            /\ ful' = [ful EXCEPT ![f].pc = "ledger", ![f].sid = s,
                                  ![f].row = payments[s],
                                  ![f].user_id = payments[s].user_id,
                                  ![f].credits = payments[s].credits]
       ELSE IF MetaValid(meta[s]) /\ meta[s].user_id \in users
            THEN ful' = [ful EXCEPT ![f].pc = "insert", ![f].sid = s,
                                    ![f].user_id = meta[s].user_id,
                                    ![f].credits = IntOf(meta[s].credits)]
            ELSE ful' = [ful EXCEPT ![f] = DoneFul(s, "invalid")]
    /\ last' = NoOp
    /\ UNCHANGED <<ip_credits, credits, generations, gen_req, payments,
                   credit_ledger, meta, fixedVars>>

\* FulSelect that takes the account and the credits of an existing Payment
\* from the event's metadata when that is valid.
FulSelectTrustsMetadata(f, s) ==
    /\ ful[f].pc = "idle"
    /\ \A p \in Ful : p < f => ful[p].pc # "idle"
    /\ IF HasRow(payments, s)
       THEN /\ PaymentLockFree(s)
            /\ IF payments[s].status = "fulfilled"
               THEN ful' = [ful EXCEPT ![f] = DoneFul(s, "replay")]
               ELSE IF MetaValid(meta[s]) /\ meta[s].user_id \in users
                    THEN ful' = [ful EXCEPT ![f].pc = "ledger", ![f].sid = s,
                                   ![f].row = payments[s],
                                   ![f].user_id = meta[s].user_id,
                                   ![f].credits = IntOf(meta[s].credits)]
                    ELSE ful' = [ful EXCEPT ![f].pc = "ledger", ![f].sid = s,
                                   ![f].row = payments[s],
                                   ![f].user_id = payments[s].user_id,
                                   ![f].credits = payments[s].credits]
       ELSE IF MetaValid(meta[s]) /\ meta[s].user_id \in users
            THEN ful' = [ful EXCEPT ![f].pc = "insert", ![f].sid = s,
                                    ![f].user_id = meta[s].user_id,
                                    ![f].credits = IntOf(meta[s].credits)]
            ELSE ful' = [ful EXCEPT ![f] = DoneFul(s, "invalid")]
    /\ last' = NoOp
    /\ UNCHANGED <<ip_credits, credits, generations, gen_req, payments,
                   credit_ledger, meta, fixedVars>>

\* Lines 54-141: SELECT ... FOR UPDATE of the Payment, the replay guard, and
\* without a row the validation of the event's metadata.
FulSelect(f, s) ==
    /\ ful[f].pc = "idle"
    /\ \A p \in Ful : p < f => ful[p].pc # "idle"
    /\ IF HasRow(payments, s)
       THEN /\ PaymentLockFree(s)
            /\ IF payments[s].status = "fulfilled"
               THEN ful' = [ful EXCEPT ![f] = DoneFul(s, "replay")]
               ELSE ful' = [ful EXCEPT ![f].pc = "ledger", ![f].sid = s,
                                       ![f].row = payments[s],
                                       ![f].user_id = payments[s].user_id,
                                       ![f].credits = payments[s].credits]
       ELSE IF MetaValid(meta[s]) /\ meta[s].user_id \in users
            THEN ful' = [ful EXCEPT ![f].pc = "insert", ![f].sid = s,
                                    ![f].user_id = meta[s].user_id,
                                    ![f].credits = IntOf(meta[s].credits)]
            ELSE ful' = [ful EXCEPT ![f] = DoneFul(s, "invalid")]
    /\ last' = NoOp
    /\ UNCHANGED <<ip_credits, credits, generations, gen_req, payments,
                   credit_ledger, meta, fixedVars>>

\* Lines 143-160: INSERT INTO payments ... 'paid'.  The unique index on
\* stripe_session_id makes the insert wait for a transaction that inserted the
\* same id, and fail once that is committed.
FulInsert(f) ==
    LET s == ful[f].sid IN
    /\ ful[f].pc = "insert"
    /\ PaymentLockFree(s)
    /\ IF HasRow(payments, s)
       THEN \* UniqueViolationError, caught at line 161
            /\ ful' = [ful EXCEPT ![f].pc = "refetch", ![f].tx_failed = TRUE]
            /\ last' = NoOp
       ELSE /\ ful' = [ful EXCEPT ![f].pc = "ledger",
                          ![f].row = PaymentRow(ful[f].user_id, ful[f].credits,
                                                "paid")]
            /\ last' = [op |-> "status", sid |-> s, old |-> "none",
                        new |-> "paid"]
    /\ UNCHANGED <<ip_credits, credits, generations, gen_req, payments,
                   credit_ledger, meta, fixedVars>>

\* Lines 161-175: after the unique violation, fetch the existing row FOR UPDATE
\* and go on with it.
FulRefetch(f) ==
    LET s == ful[f].sid IN
    /\ ful[f].pc = "refetch"
    /\ IF ~StatementRuns(f)
       THEN ful' = [ful EXCEPT ![f] = DoneFul(s, "error")]
       ELSE /\ PaymentLockFree(s)
            /\ IF ~HasRow(payments, s) \/ payments[s].status = "fulfilled"
               THEN ful' = [ful EXCEPT ![f] = DoneFul(s, "replay")]
               ELSE ful' = [ful EXCEPT ![f].pc = "ledger",
                                       ![f].row = payments[s],
                                       ![f].user_id = payments[s].user_id,
                                       ![f].credits = payments[s].credits]
    /\ last' = NoOp
    /\ UNCHANGED <<ip_credits, credits, generations, gen_req, payments,
                   credit_ledger, meta, fixedVars>>

\* FulLedger that writes the ledger row only for a Payment that was not marked
\* failed or canceled.
FulLedgerSkipsFailed(f) ==
    LET s == ful[f].sid IN
    /\ ful[f].pc = "ledger"
    /\ IF LedgerConflict(s)
       THEN ful' = [ful EXCEPT ![f].pc = "fulfill", ![f].row.status = "paid",
                               ![f].tx_failed = TRUE]
       ELSE IF ful[f].row.status \in {"failed", "canceled"}
            THEN ful' = [ful EXCEPT ![f].pc = "fulfill",
                                    ![f].row.status = "paid"]
            ELSE ful' = [ful EXCEPT ![f].pc = "credit",
                                    ![f].row.status = "paid",
                                    ![f].ledger_inserted = TRUE]
    /\ last' = [op |-> "status", sid |-> s, old |-> ful[f].row.status,
                new |-> "paid"]
    /\ UNCHANGED <<ip_credits, credits, generations, gen_req, payments,
                   credit_ledger, meta, fixedVars>>

\* Lines 184-219: UPDATE payments SET status = 'paid', then INSERT INTO
\* credit_ledger; a unique violation of the ledger is caught and leaves
\* ledger_inserted False.
FulLedger(f) ==
    LET s == ful[f].sid IN
    /\ ful[f].pc = "ledger"
    /\ IF LedgerConflict(s)
       THEN ful' = [ful EXCEPT ![f].pc = "fulfill", ![f].row.status = "paid",
                               ![f].tx_failed = TRUE]
       ELSE ful' = [ful EXCEPT ![f].pc = "credit", ![f].row.status = "paid",
                               ![f].ledger_inserted = TRUE]
    /\ last' = [op |-> "status", sid |-> s, old |-> ful[f].row.status,
                new |-> "paid"]
    /\ UNCHANGED <<ip_credits, credits, generations, gen_req, payments,
                   credit_ledger, meta, fixedVars>>

\* Lines 221-232: the upsert-and-increment of the account's balance.
FulCredit(f) ==
    LET u == ful[f].user_id IN
    /\ ful[f].pc = "credit"
    /\ CreditsLockFree(u)
    /\ ful' = [ful EXCEPT ![f].pc = "fulfill",
                          ![f].bal = CreditsUpsertAdd(u, ful[f].credits)]
    /\ last' = NoOp
    /\ UNCHANGED <<ip_credits, credits, generations, gen_req, payments,
                   credit_ledger, meta, fixedVars>>

\* Lines 234-242 and the end of the transaction block: UPDATE payments SET
\* status = 'fulfilled', fulfilled_at = NOW(), and COMMIT.
FulMarkFulfilled(f) ==
    LET s == ful[f].sid
        u == ful[f].user_id IN
    /\ ful[f].pc = "fulfill"
    /\ IF ~StatementRuns(f)
       THEN /\ ful' = [ful EXCEPT ![f] = DoneFul(s, "error")]
            /\ last' = NoOp
            /\ UNCHANGED <<payments, credit_ledger, credits>>
       ELSE /\ payments' = Put(payments, s,
                               [ful[f].row EXCEPT !.status = "fulfilled",
                                                  !.fulfilled_at = TRUE])
            /\ credit_ledger' =
                   IF ful[f].ledger_inserted
                   THEN Append(credit_ledger,
                               LedgerRow(u, ful[f].credits, "purchase", s))
                   ELSE credit_ledger
            /\ credits' = IF ful[f].ledger_inserted
                          THEN Put(credits, u, ful[f].bal)
                          ELSE credits
            /\ ful' = [ful EXCEPT ![f] = DoneFul(s, "fulfilled")]
            /\ last' = [op |-> "status", sid |-> s, old |-> ful[f].row.status,
                        new |-> "fulfilled",
                        found |-> IF HasRow(payments, s)
                                  THEN payments[s].status ELSE "none"]
    /\ UNCHANGED <<ip_credits, generations, gen_req, meta, fixedVars>>

\* FulAbort without conn.transaction(): the statements already executed stay
\* committed.
FulAbortKeepsWrites(f) ==
    LET s == ful[f].sid
        u == ful[f].user_id IN
    /\ ful[f].pc \in InTxFul
    /\ payments' = IF ful[f].row.status # "none"
                   THEN Put(payments, s, ful[f].row) ELSE payments
    /\ credit_ledger' =
           IF ful[f].ledger_inserted
           THEN Append(credit_ledger, LedgerRow(u, ful[f].credits, "purchase", s))
           ELSE credit_ledger
    /\ credits' = IF ful[f].pc = "fulfill" /\ ful[f].ledger_inserted
                  THEN Put(credits, u, ful[f].bal) ELSE credits
    /\ ful' = [ful EXCEPT ![f] =
           DoneFul(s, IF ful[f].ledger_inserted
                      THEN "crashed_after_ledger" ELSE "crashed")]
    /\ last' = NoOp
    /\ UNCHANGED <<ip_credits, generations, gen_req, meta, fixedVars>>

\* The execution dies inside the transaction block: everything it wrote is
\* rolled back, and the event source delivers the event again.
FulAbort(f) ==
    /\ ful[f].pc \in InTxFul
    /\ ful' = [ful EXCEPT ![f] =
           DoneFul(ful[f].sid, IF ful[f].ledger_inserted
                               THEN "crashed_after_ledger" ELSE "crashed")]
    /\ last' = NoOp
    /\ UNCHANGED <<ip_credits, credits, generations, gen_req, payments,
                   credit_ledger, meta, fixedVars>>

\* ---- _mark_payment_status ----

MarkStatusAnyRow(s, status) ==
    /\ PaymentLockFree(s)
    /\ HasRow(payments, s)
    /\ payments' = [payments EXCEPT ![s].status = status]
    /\ last' = [op |-> "mark", sid |-> s, old |-> payments[s].status,
                new |-> status, credits |-> credits]
    /\ UNCHANGED <<ip_credits, credits, generations, gen_req, credit_ledger,
                   ful, meta, fixedVars>>

\* UPDATE payments SET status = $1 WHERE stripe_session_id = $2 AND
\* status != 'fulfilled': the update waits for the transaction that holds the
\* row, and then sees the committed row.
MarkStatus(s, status) ==
    /\ PaymentLockFree(s)
    /\ HasRow(payments, s)
    /\ payments' = IF payments[s].status # "fulfilled"
                   THEN [payments EXCEPT ![s].status = status]
                   ELSE payments
    /\ last' = [op |-> "mark", sid |-> s, old |-> payments[s].status,
                new |-> payments'[s].status, credits |-> credits]
    /\ UNCHANGED <<ip_credits, credits, generations, gen_req, credit_ledger,
                   ful, meta, fixedVars>>

\* ---- checkout ----

\* credits/endpoints.py lines 130-150: INSERT INTO payments ... 'created' for
\* the session Stripe has just created.
Checkout(s, u, c) ==
    /\ u \in users
    /\ ~HasRow(payments, s)
    /\ PaymentLockFree(s)
    /\ payments' = Put(payments, s, PaymentRow(u, c, "created"))
    /\ last' = [op |-> "status", sid |-> s, old |-> "none", new |-> "created"]
    /\ UNCHANGED <<ip_credits, credits, generations, gen_req, credit_ledger,
                   ful, meta, fixedVars>>

\* ---- ownership of Generation rows ----

\* SQL's "=": a comparison with NULL is not true.
SqlEqNullSafe(a, b) == a = b
SqlEq(a, b) == a # NULL /\ b # NULL /\ a = b

\* row["created_at"].isoformat() and datetime.fromisoformat(cursor)
IsoStrings == {ToString(t) : t \in 0..MaxTime}
IsoFormat(t) == ToString(t)
FromIso(str) == CHOOSE t \in 0..MaxTime : ToString(t) = str

\* jobs.py lines 158-167: WHERE id = $1 AND (user_id = $2 OR
\* guest_session_id = $3)
GenerationVisible(id, user_id, guest_session_id) ==
    /\ HasRow(generations, id)
    /\ \/ SqlEq(generations[id].user_id, user_id)
       \/ SqlEq(generations[id].guest_session_id, guest_session_id)

\* The ghost records the response of one query at a time: a query is not
\* taken right after another query.  Queries leave the database unchanged, so
\* this does not restrict the database states that are reached.
QueryOps == {"get", "list"}

NotFound == [code |-> 404, detail |-> "Job not found"]

\* get_generation_status: the response to GET /generate/{job_id}
GetStatus(user_id, guest_session_id, job_id) ==
    /\ user_id # NULL => user_id \in users
    /\ last.op \notin QueryOps
    /\ last' = [op |-> "get", user_id |-> user_id,
                guest_session_id |-> guest_session_id, job_id |-> job_id,
                response |->
                    IF GenerationVisible(job_id, user_id, guest_session_id)
                    THEN [code |-> 200, id |-> job_id,
                          status |-> generations[job_id].status,
                          createdAt |-> IsoFormat(generations[job_id].created_at)]
                    ELSE NotFound]
    /\ UNCHANGED <<ip_credits, credits, generations, gen_req, payVars,
                   fixedVars>>

Scopes == {"auto", "user", "guest", "all", "account", "other"}

\* jobs.py lines 202-232: the WHERE clause of the scope; Empty stands for the
\* early "return []".
ScopeMatches(scope, user_id, guest_session_id) ==
    CASE scope = "auto" ->
            LET owner_id == IF user_id # NULL THEN user_id ELSE guest_session_id
            IN IF owner_id = NULL THEN {}
               ELSE {id \in DOMAIN generations :
                        \/ SqlEq(generations[id].user_id, owner_id)
                        \/ SqlEq(generations[id].guest_session_id, owner_id)}
      [] scope = "user" ->
            IF user_id = NULL THEN {}
            ELSE {id \in DOMAIN generations :
                     SqlEq(generations[id].user_id, user_id)}
      [] scope = "guest" ->
            IF guest_session_id = NULL THEN {}
            ELSE {id \in DOMAIN generations :
                     SqlEq(generations[id].guest_session_id, guest_session_id)}
      [] scope = "all" ->
            IF user_id = NULL THEN {}
            ELSE {id \in DOMAIN generations :
                     \/ SqlEq(generations[id].user_id, user_id)
                     \/ SqlEq(generations[id].guest_session_id, guest_session_id)}
      [] OTHER -> DOMAIN generations

\* AND g.created_at <= $n, when the cursor parses.
CursorMatchesInclusive(ids, cursor) ==
    IF cursor # NULL /\ cursor \in IsoStrings
    THEN {id \in ids : generations[id].created_at <= FromIso(cursor)}
    ELSE ids

\* jobs.py lines 234-244: AND g.created_at < $n, when the cursor parses.
CursorMatches(ids, cursor) ==
    IF cursor # NULL /\ cursor \in IsoStrings
    THEN {id \in ids : generations[id].created_at < FromIso(cursor)}
    ELSE ids

\* ORDER BY g.created_at DESC: every order of the rows that is descending in
\* created_at (rows with equal created_at come in any order).
OrderedDesc(ids) ==
    {sq \in [1..Cardinality(ids) -> ids] :
        /\ \A i, j \in 1..Cardinality(ids) : i # j => sq[i] # sq[j]
        /\ \A i, j \in 1..Cardinality(ids) :
               i < j => generations[sq[i]].created_at
                            >= generations[sq[j]].created_at}

LIST_MAX == 100

\* endpoints.py lines 251-252: if limit > 100: limit = 100
ClampLimit(limit) == IF limit > LIST_MAX THEN LIST_MAX ELSE limit

\* LIMIT $n
Limit(sq, limit) ==
    [i \in 1..(IF limit < Len(sq) THEN limit ELSE Len(sq)) |-> sq[i]]

\* list_generations_endpoint: the response to GET /generations
ListGenerations(user_id, guest_session_id, scope, limit, cursor) ==
    /\ user_id # NULL => user_id \in users
    /\ last.op \notin QueryOps
    /\ \E sq \in OrderedDesc(CursorMatches(
                    ScopeMatches(scope, user_id, guest_session_id), cursor)) :
           LET rows == Limit(sq, ClampLimit(limit))
               items == [i \in 1..Len(rows) |->
                            [id |-> rows[i],
                             status |-> generations[rows[i]].status,
                             createdAt |->
                                 IsoFormat(generations[rows[i]].created_at)]]
           IN last' = [op |-> "list", user_id |-> user_id,
                       guest_session_id |-> guest_session_id,
                       scope |-> scope, limit |-> limit, cursor |-> cursor,
                       generations |-> items,
                       next_cursor |-> IF Len(items) > 0
                                       THEN items[Len(items)].createdAt
                                       ELSE NULL]
    /\ UNCHANGED <<ip_credits, credits, generations, gen_req, payVars,
                   fixedVars>>

\* A caller walks through its history: the first call of GET /generations
\* has no cursor, every further call sends the cursor of the previous response,
\* and the walk ends with the first empty page.  The ghost field visited
\* collects the ids of the pages in the order they were returned.
ListNextPage(user_id, guest_session_id, limit) ==
    LET first == last.op # "page"
        cursor == IF first THEN NULL ELSE last.next_cursor
        visited == IF first THEN <<>> ELSE last.visited
    IN
    /\ user_id # NULL => user_id \in users
    /\ ~first => /\ last.user_id = user_id
                 /\ last.guest_session_id = guest_session_id
                 /\ last.limit = limit
                 /\ Len(last.generations) > 0
    /\ \E sq \in OrderedDesc(CursorMatches(
                    ScopeMatches("auto", user_id, guest_session_id), cursor)) :
           LET rows == Limit(sq, ClampLimit(limit))
               items == [i \in 1..Len(rows) |->
                            [id |-> rows[i],
                             status |-> generations[rows[i]].status,
                             createdAt |->
                                 IsoFormat(generations[rows[i]].created_at)]]
           IN last' = [op |-> "page", user_id |-> user_id,
                       guest_session_id |-> guest_session_id,
                       scope |-> "auto", limit |-> limit, cursor |-> cursor,
                       generations |-> items,
                       next_cursor |-> IF Len(items) > 0
                                       THEN items[Len(items)].createdAt
                                       ELSE NULL,
                       visited |-> visited \o rows]
    /\ UNCHANGED <<ip_credits, credits, generations, gen_req, payVars,
                   fixedVars>>

\* The rows UPDATE ... WHERE user_id IS NULL AND guest_session_id = $2 matches.
ClaimableRows(user_id, guest_session_id) ==
    {id \in DOMAIN generations :
        /\ generations[id].user_id = NULL
        /\ SqlEq(generations[id].guest_session_id, guest_session_id)}

\* UPDATE generations SET user_id = $1 WHERE guest_session_id = $2
ClaimEveryRowOfSession(user_id, guest_session_id) ==
    [id \in DOMAIN generations |->
        IF SqlEq(generations[id].guest_session_id, guest_session_id)
        THEN [generations[id] EXCEPT !.user_id = user_id]
        ELSE generations[id]]

\* UPDATE generations SET user_id = $1 WHERE user_id IS NULL AND
\* guest_session_id = $2
ClaimKeepsGuestSession(user_id, guest_session_id) ==
    [id \in DOMAIN generations |->
        IF id \in ClaimableRows(user_id, guest_session_id)
        THEN [generations[id] EXCEPT !.user_id = user_id]
        ELSE generations[id]]

\* session.py lines 92-102, claim_guest_history: UPDATE generations SET
\* user_id = $1, guest_session_id = NULL WHERE user_id IS NULL AND
\* guest_session_id = $2
ClaimGuestHistory(user_id, guest_session_id) ==
    [id \in DOMAIN generations |->
        IF id \in ClaimableRows(user_id, guest_session_id)
        THEN [generations[id] EXCEPT !.user_id = user_id,
                                     !.guest_session_id = NULL]
        ELSE generations[id]]

\* auth/endpoints.py lines 127-142, login: the credentials are those of an
\* account, and the guest history of the request's guest session is claimed.
Login(user_id, guest_session_id) ==
    /\ user_id \in users
    /\ generations' = ClaimGuestHistory(user_id, guest_session_id)
    /\ LET again == /\ last.op = "claim"
                     /\ last.user_id = user_id
                     /\ last.guest_session_id = guest_session_id
           count == Cardinality(ClaimableRows(user_id, guest_session_id))
       IN last' = [op |-> "claim", user_id |-> user_id,
                   guest_session_id |-> guest_session_id,
                   count |-> count,
                   first |-> IF again THEN last.first ELSE count,
                   again |-> again]
    /\ UNCHANGED <<ip_credits, credits, gen_req, payVars, fixedVars>>

\* ---- generate_image after the transaction ----

\* Lines 172-186: the upload of the input to the storage and the insert of the
\* input asset row, which needs the Generation row (foreign key).
GenPersistInput(r) ==
    /\ gen_req[r].pc = "committed"
    /\ HasRow(generations, r)
    /\ generation_assets' = generation_assets \cup {<<r, "input">>}
    /\ gen_req' = [gen_req EXCEPT ![r].pc = "asset"]
    /\ last' = NoOp
    /\ UNCHANGED <<ip_credits, credits, generations, payVars, job_queue,
                   workers, dequeued, restVars>>

\* Lines 188-199: enqueue_job puts the job descriptor, and the response is
\* returned.
GenEnqueue(r) ==
    /\ gen_req[r].pc = "asset"
    /\ job_queue' = Append(job_queue, r)
    /\ enqueued' = Append(enqueued, r)
    /\ gen_req' = [gen_req EXCEPT ![r].pc = "enqueued"]
    /\ last' = NoOp
    /\ UNCHANGED <<ip_credits, credits, generations, payVars,
                   generation_assets, workers, dequeued, job_tasks, guestVars,
                   reg, con, constVars>>

\* The upload or the insert raises, or the process dies before the enqueue:
\* generate_image has no handler for it, the request ends with an error.
GenPostFail(r) ==
    /\ gen_req[r].pc \in {"committed", "asset"}
    /\ gen_req' = [gen_req EXCEPT ![r].pc = "post_failed"]
    /\ last' = NoOp
    /\ UNCHANGED <<ip_credits, credits, generations, payVars, jobVars,
                   restVars>>

\* ---- _worker_loop ----

\* str(exc) of an exception a collaborator raises: any string, also the empty
\* one (asyncio.TimeoutError(), httpx.ReadTimeout("")).
ErrorMessages == {"", "error"}

\* update_generation_status that writes status and error_message for every
\* status and never completed_at.
UpdateGenerationStatusNoStamp(id, status, error_message) ==
    IF HasRow(generations, id)
    THEN [generations EXCEPT ![id].status = status,
                             ![id].error_message = error_message]
    ELSE generations

\* jobs.py lines 269-287, update_generation_status: "completed" sets
\* completed_at = NOW() and leaves error_message, every other status writes
\* error_message and leaves completed_at; no row, no change.
UpdateGenerationStatus(id, status, error_message) ==
    IF HasRow(generations, id)
    THEN IF status = "completed"
         THEN [generations EXCEPT ![id].status = status,
                                  ![id].completed_at = <<now>>]
         ELSE [generations EXCEPT ![id].status = status,
                                  ![id].error_message = error_message]
    ELSE generations

\* WorkerGet with a queue that hands out its oldest descriptor without
\* removing it.
WorkerGetPeek(w) ==
    /\ workers[w].pc = "get"
    /\ job_queue # <<>>
    /\ dequeued[Head(job_queue)] < JOB_WORKERS
    /\ workers' = [workers EXCEPT ![w] =
           [pc |-> "processing", job_id |-> Head(job_queue),
            error_message |-> NULL]]
    /\ dequeued' = [dequeued EXCEPT ![Head(job_queue)] = @ + 1]
    /\ last' = NoOp
    /\ UNCHANGED <<ip_credits, credits, generations, gen_req, payVars,
                   generation_assets, job_queue, restVars>>

\* WorkerGet with a queue that hands out its newest descriptor.
WorkerGetNewest(w) ==
    /\ workers[w].pc = "get"
    /\ job_queue # <<>>
    /\ workers' = [workers EXCEPT ![w] =
           [pc |-> "processing", job_id |-> job_queue[Len(job_queue)],
            error_message |-> NULL]]
    /\ job_queue' = SubSeq(job_queue, 1, Len(job_queue) - 1)
    /\ dequeued' = [dequeued EXCEPT ![job_queue[Len(job_queue)]] = @ + 1]
    /\ last' = NoOp
    /\ UNCHANGED <<ip_credits, credits, generations, gen_req, payVars,
                   generation_assets, restVars>>

\* Lines 63-67: job_queue.get() hands the oldest descriptor to one worker.
WorkerGet(w) ==
    /\ workers[w].pc = "get"
    /\ job_queue # <<>>
    /\ workers' = [workers EXCEPT ![w] =
           [pc |-> "processing", job_id |-> Head(job_queue),
            error_message |-> NULL]]
    /\ job_queue' = Tail(job_queue)
    /\ dequeued' = [dequeued EXCEPT ![Head(job_queue)] = @ + 1]
    /\ last' = NoOp
    /\ UNCHANGED <<ip_credits, credits, generations, gen_req, payVars,
                   generation_assets, restVars>>

\* Line 71: the write of "processing", or the statement raises.
WorkerMarkProcessing(w) ==
    /\ workers[w].pc = "processing"
    /\ \/ /\ generations' = UpdateGenerationStatus(workers[w].job_id,
                                                   "processing", NULL)
          /\ workers' = [workers EXCEPT ![w].pc = "run"]
       \/ /\ \E msg \in ErrorMessages :
                 workers' = [workers EXCEPT ![w].pc = "fail",
                                            ![w].error_message = msg]
          /\ UNCHANGED generations
    /\ last' = NoOp
    /\ UNCHANGED <<ip_credits, credits, gen_req, payVars, generation_assets,
                   job_queue, dequeued, restVars>>

\* WorkerRun without the check of lines 73-75: the worker goes on to the
\* generation API whether the input asset exists or not.
WorkerRunIgnoresMissingInput(w) ==
    LET id == workers[w].job_id IN
    /\ workers[w].pc = "run"
    /\ \/ /\ generation_assets' = generation_assets \cup {<<id, "output">>}
          /\ workers' = [workers EXCEPT ![w].pc = "complete"]
       \/ /\ \E msg \in ErrorMessages :
                 workers' = [workers EXCEPT ![w].pc = "fail",
                                            ![w].error_message = msg]
          /\ UNCHANGED generation_assets
    /\ last' = NoOp
    /\ UNCHANGED <<ip_credits, credits, generations, gen_req, payVars,
                   job_queue, dequeued, restVars>>

\* Lines 73-114: look up the input asset, read it from the storage, call the
\* generation API, store the output and insert the output asset row; a missing
\* input asset raises RuntimeError, and every collaborator may raise.
WorkerRun(w) ==
    LET id == workers[w].job_id IN
    /\ workers[w].pc = "run"
    /\ IF <<id, "input">> \notin generation_assets
       THEN /\ workers' = [workers EXCEPT
                   ![w].pc = "fail",
                   ![w].error_message = "Input asset not found"]
            /\ UNCHANGED generation_assets
       ELSE \/ /\ HasRow(generations, id)
               /\ generation_assets' = generation_assets \cup {<<id, "output">>}
               /\ workers' = [workers EXCEPT ![w].pc = "complete"]
            \/ /\ \E msg \in ErrorMessages :
                      workers' = [workers EXCEPT ![w].pc = "fail",
                                                 ![w].error_message = msg]
               /\ UNCHANGED generation_assets
    /\ last' = NoOp
    /\ UNCHANGED <<ip_credits, credits, generations, gen_req, payVars,
                   job_queue, dequeued, restVars>>

\* Line 116: the write of "completed", or the statement raises.
WorkerMarkCompleted(w) ==
    /\ workers[w].pc = "complete"
    /\ \/ /\ generations' = UpdateGenerationStatus(workers[w].job_id,
                                                   "completed", NULL)
          /\ workers' = [workers EXCEPT ![w] = IdleWorker]
       \/ /\ \E msg \in ErrorMessages :
                 workers' = [workers EXCEPT ![w].pc = "fail",
                                            ![w].error_message = msg]
          /\ UNCHANGED generations
    /\ last' = NoOp
    /\ UNCHANGED <<ip_credits, credits, gen_req, payVars, generation_assets,
                   job_queue, dequeued, restVars>>

\* WorkerMarkFailed giving back the credit of the job's origin.
WorkerMarkFailedRefunds(w) ==
    /\ workers[w].pc = "fail"
    /\ \/ /\ generations' = UpdateGenerationStatus(workers[w].job_id, "failed",
                                                   workers[w].error_message)
          /\ ip_credits' = Put(ip_credits, gen_req[workers[w].job_id].ip,
                               EffectiveFree(gen_req[workers[w].job_id].ip) + 1)
          /\ workers' = [workers EXCEPT ![w] = IdleWorker]
       \/ /\ workers' = [workers EXCEPT ![w].pc = "dead"]
          /\ UNCHANGED <<generations, ip_credits>>
    /\ last' = NoOp
    /\ UNCHANGED <<credits, gen_req, payVars, generation_assets,
                   job_queue, dequeued, restVars>>

\* Lines 117-121: the handler writes "failed" with str(exc) and the loop goes
\* on; when that statement raises, the exception leaves the loop and the task
\* ends.
WorkerMarkFailed(w) ==
    /\ workers[w].pc = "fail"
    /\ \/ /\ generations' = UpdateGenerationStatus(workers[w].job_id, "failed",
                                                   workers[w].error_message)
          /\ workers' = [workers EXCEPT ![w] = IdleWorker]
       \/ /\ workers' = [workers EXCEPT ![w].pc = "dead"]
          /\ UNCHANGED generations
    /\ last' = NoOp
    /\ UNCHANGED <<ip_credits, credits, gen_req, payVars, generation_assets,
                   job_queue, dequeued, restVars>>

\* stop_workers on an interpreter whose CancelledError is an Exception: the
\* handler of a worker cancelled while it processes a job catches it and goes
\* on to write failed.
StopWorkersCancelCaught ==
    /\ job_tasks # {}
    /\ workers' = [w \in Workers |->
           IF workers[w].pc \in {"get", "dead"}
           THEN [workers[w] EXCEPT !.pc = "cancelled"]
           ELSE [workers[w] EXCEPT !.pc = "fail", !.error_message = ""]]
    /\ job_tasks' = {}
    /\ last' = NoOp
    /\ UNCHANGED <<ip_credits, credits, generations, gen_req, payVars,
                   generation_assets, job_queue, dequeued, guestVars,
                   reg, con, enqueued, constVars>>

\* jobs.py lines 43-53, stop_workers: cancel every task and wait for them.
\* CancelledError is raised at the await the task is suspended in: the one of
\* job_queue.get() is caught and leaves the loop (line 64); any other passes
\* "except Exception" (line 117) and ends the task. The job a cancelled worker
\* holds is not put back.
StopWorkers ==
    /\ job_tasks # {}
    /\ workers' = [w \in Workers |-> [workers[w] EXCEPT !.pc = "cancelled"]]
    /\ job_tasks' = {}
    /\ last' = NoOp
    /\ UNCHANGED <<ip_credits, credits, generations, gen_req, payVars,
                   generation_assets, job_queue, dequeued, guestVars,
                   reg, con, enqueued, constVars>>

\* A slot of the pool without a task.
NoTask == [pc |-> "cancelled", job_id |-> 0, error_message |-> NULL]

\* start_workers without the check of job_tasks: every call creates
\* worker_count more tasks, in the free slots.
StartWorkersAgain(worker_count) ==
    /\ job_tasks' = job_tasks \cup
           {w \in Workers : w <= Cardinality(job_tasks) + worker_count}
    /\ workers' = [w \in Workers |->
                      IF w \in job_tasks' \ job_tasks THEN IdleWorker
                      ELSE workers[w]]
    /\ last' = [op |-> "start", worker_count |-> worker_count]
    /\ UNCHANGED <<ip_credits, credits, generations, gen_req, payVars,
                   generation_assets, job_queue, dequeued, guestVars,
                   reg, con, enqueued, constVars>>

\* jobs.py lines 31-40, start_workers: nothing when job_tasks holds a task,
\* else worker_count new tasks of _worker_loop.
StartWorkers(worker_count) ==
    /\ IF job_tasks # {}
       THEN UNCHANGED <<job_tasks, workers>>
       ELSE /\ job_tasks' = 1..worker_count
            /\ workers' = [w \in Workers |->
                              IF w \in 1..worker_count THEN IdleWorker
                              ELSE NoTask]
    /\ last' = [op |-> "start", worker_count |-> worker_count]
    /\ UNCHANGED <<ip_credits, credits, generations, gen_req, payVars,
                   generation_assets, job_queue, dequeued, guestVars,
                   reg, con, enqueued, constVars>>

\* The ids of the rows of a table guest_sessions.
SessionIds(table) == {table[h] : h \in DOMAIN table}

\* ---- the executions of consume_credits ----

Cons == 1..NumConsume

IdleCon == [pc |-> "idle", ip |-> NULL, user |-> NULL, amount |-> 0,
            free_credits |-> 0, user_credits |-> 0, remaining |-> 0,
            response |-> [code |-> 0, detail |-> "pending"]]

\* ---- guest sessions ----

Res == 1..NumResolve

\* hash_token: the SHA-256 digest of the token; no two tokens of the model
\* have the same digest.
HashToken(token) == <<"sha256", token>>

\* generate_guest_token(): secrets.token_urlsafe(32), the n-th value returned.
NewToken(n) == "n" \o ToString(n)

\* The id the database gives the n-th row inserted into guest_sessions.
NewGuestId(n) == "g" \o ToString(n)

\* The key of guest_sessions is the hash of the token: a table with two rows.
BaseSessions ==
    [h \in {HashToken("t1"), HashToken("t2")} |->
        IF h = HashToken("t1") THEN "g1" ELSE "g2"]

\* The hashes that are or were the key of a row.
UsedHashes == DOMAIN guest_sessions \cup {r.old : r \in rotations}

\* The number of the next token generate_guest_token() returns: a token that
\* no row has or had.
FreshTokens ==
    {n \in 1..NumTokens : HashToken(NewToken(n)) \notin UsedHashes}
FreshToken == NewToken(CHOOSE n \in FreshTokens : \A m \in FreshTokens : n <= m)

\* The id of the next row of guest_sessions: no row is deleted, so it is the
\* number of rows plus one.
FreshGuestId == NewGuestId(Cardinality(DOMAIN guest_sessions) + 1)

\* The cookies a client may send: the tokens of the initial state and every
\* token the server has handed out.
Cookies ==
    {"t1", "t2"} \cup {NewToken(n) : n \in 1..NumTokens \ FreshTokens}

IdleRes == [pc |-> "idle", token |-> NULL, guest_session_id |-> NULL,
            new_guest_token |-> NULL, rots |-> {}]

\* session.py line 64, get_or_create_guest_session: SELECT id FROM
\* guest_sessions WHERE token_hash = $1, for the cookie of the request
\* (middleware.py lines 32-44).  The ghost rots keeps the rotations done
\* before the request.
GsSelect(q, token) ==
    /\ gs_req[q].pc = "idle"
    /\ \A p \in Res : p < q => gs_req[p].pc # "idle"
    /\ token \in Cookies
    /\ LET h == HashToken(token) IN
       gs_req' = [gs_req EXCEPT ![q] =
           [pc |-> IF HasRow(guest_sessions, h) THEN "touch" ELSE "insert",
            token |-> token,
            guest_session_id |-> IF HasRow(guest_sessions, h)
                                 THEN guest_sessions[h] ELSE NULL,
            new_guest_token |-> NULL, rots |-> rotations]]
    /\ last' = NoOp
    /\ UNCHANGED <<ip_credits, credits, generations, gen_req, payVars, jobVars,
                   job_tasks, guest_sessions, rotations, last_seen_at, reg, con,
                   enqueued, constVars>>

\* middleware.py lines 50-55: a request without cookie gets a new token and a
\* session for it.
GsNoCookie(q) ==
    /\ gs_req[q].pc = "idle"
    /\ \A p \in Res : p < q => gs_req[p].pc # "idle"
    /\ FreshTokens # {}
    /\ guest_sessions' = Put(guest_sessions, HashToken(FreshToken),
                             FreshGuestId)
    /\ last_seen_at' = Put(last_seen_at, FreshGuestId, now)
    /\ gs_req' = [gs_req EXCEPT ![q] =
           [pc |-> "done", token |-> NULL, guest_session_id |-> FreshGuestId,
            new_guest_token |-> FreshToken, rots |-> rotations]]
    /\ last' = NoOp
    /\ UNCHANGED <<ip_credits, credits, generations, gen_req, payVars, jobVars,
                   job_tasks, rotations, reg, con, enqueued, constVars>>

\* The key of guest_sessions is the hash of the token: the insert of a hash
\* that has a row raises.
TokenHashConflict(token_hash) == HasRow(guest_sessions, token_hash)

\* session.py lines 69-73 and middleware.py lines 43-54: INSERT INTO
\* guest_sessions (token_hash).  When a row with the hash has been inserted
\* since the SELECT, the insert raises; the middleware catches the exception,
\* drops the cookie, generates a new token and creates a session for it.
GsInsert(q) ==
    /\ gs_req[q].pc = "insert"
    /\ IF TokenHashConflict(HashToken(gs_req[q].token))
       THEN /\ FreshTokens # {}
            /\ guest_sessions' = Put(guest_sessions, HashToken(FreshToken),
                                     FreshGuestId)
            /\ gs_req' = [gs_req EXCEPT ![q].pc = "done",
                                        ![q].guest_session_id = FreshGuestId,
                                        ![q].new_guest_token = FreshToken]
       ELSE /\ guest_sessions' = Put(guest_sessions,
                                     HashToken(gs_req[q].token), FreshGuestId)
            /\ gs_req' = [gs_req EXCEPT ![q].pc = "done",
                                        ![q].guest_session_id = FreshGuestId]
    /\ last_seen_at' = Put(last_seen_at, FreshGuestId, now)
    /\ last' = NoOp
    /\ UNCHANGED <<ip_credits, credits, generations, gen_req, payVars, jobVars,
                   job_tasks, rotations, reg, con, enqueued, constVars>>

\* session.py lines 65-67: UPDATE guest_sessions SET last_seen_at = NOW()
\* WHERE id = $1, and the id of the row the SELECT found is returned.
GsTouch(q) ==
    /\ gs_req[q].pc = "touch"
    /\ gs_req' = [gs_req EXCEPT ![q].pc = "done"]
    /\ last_seen_at' = [id \in DOMAIN last_seen_at |->
                           IF id = gs_req[q].guest_session_id THEN now
                           ELSE last_seen_at[id]]
    /\ last' = NoOp
    /\ UNCHANGED <<ip_credits, credits, generations, gen_req, payVars, jobVars,
                   job_tasks, guest_sessions, rotations, reg, con, enqueued,
                   constVars>>

\* RotateGuestToken that inserts a row for the new hash and leaves the row of
\* the old hash.
RotateKeepsOldToken(old_token_hash, new_token_hash) ==
    [h \in DOMAIN guest_sessions \cup {new_token_hash} |->
        IF h = new_token_hash THEN guest_sessions[old_token_hash]
        ELSE guest_sessions[h]]

\* session.py lines 76-84, rotate_guest_token: UPDATE guest_sessions SET
\* token_hash = $1 WHERE token_hash = $2 RETURNING id.
RotateGuestToken(old_token_hash, new_token_hash) ==
    [h \in (DOMAIN guest_sessions \ {old_token_hash}) \cup {new_token_hash} |->
        IF h = new_token_hash THEN guest_sessions[old_token_hash]
        ELSE guest_sessions[h]]

\* DELETE FROM generations WHERE guest_session_id IS NOT NULL
DeleteEveryGuestGeneration(guest_session_id) ==
    {id \in DOMAIN generations : generations[id].guest_session_id # NULL}

\* session.py lines 87-89, delete_guest_generations: the rows that DELETE FROM
\* generations WHERE guest_session_id = $1 deletes.
DeleteGuestGenerations(guest_session_id) ==
    {id \in DOMAIN generations :
        SqlEq(generations[id].guest_session_id, guest_session_id)}

\* auth/endpoints.py lines 201-227, clear_guest_history: delete the
\* Generations of the request's guest session (their assets go with them),
\* then rotate the token of the request's cookie; without a row for the cookie
\* rotate_guest_token raises ValueError, the deletion being committed.
ClearGuestHistory(guest_session_id, guest_token) ==
    LET deleted == DeleteGuestGenerations(guest_session_id)
        old == HashToken(guest_token)
    IN /\ guest_session_id # NULL
       /\ guest_token # NULL
       /\ FreshTokens # {}
       /\ generations' = [id \in DOMAIN generations \ deleted |-> generations[id]]
       /\ generation_assets' = {a \in generation_assets : a[1] \notin deleted}
       /\ IF HasRow(guest_sessions, old)
          THEN /\ guest_sessions' = RotateGuestToken(old, HashToken(FreshToken))
               /\ rotations' = rotations \cup
                      {[old |-> old, new |-> HashToken(FreshToken),
                        id |-> guest_sessions[old]]}
               /\ last_seen_at' = [id \in DOMAIN last_seen_at |->
                                      IF id = guest_sessions[old] THEN now
                                      ELSE last_seen_at[id]]
          ELSE UNCHANGED <<guest_sessions, rotations, last_seen_at>>
       /\ last' = NoOp
       /\ UNCHANGED <<ip_credits, credits, gen_req, payVars, job_queue, workers,
                      dequeued, job_tasks, gs_req, reg, con,
                      enqueued, constVars>>

\* ---- register ----

Regs == 1..NumRegister

\* config.py: SIGNUP_FREE_CREDITS, the balance of a new account.
SIGNUP_FREE_CREDITS == 5

IdleReg == [pc |-> "idle", user_id |-> NULL, guest_session_id |-> NULL]

\* The statements of register run on a connection without conn.transaction():
\* each is committed when it returns.  The rows of email_verifications and
\* sessions the handler inserts are not part of the state.
InRegister == {"insert", "credits", "claim"}

\* auth/endpoints.py lines 72-76: SELECT id FROM users WHERE email = $1; an
\* address that has an account is answered with 409.
RegSelect(x, user_id, guest_session_id) ==
    /\ reg[x].pc = "idle"
    /\ \A y \in Regs : y < x => reg[y].pc # "idle"
    /\ reg' = [reg EXCEPT ![x] =
           [pc |-> IF user_id \in users THEN "conflict" ELSE "insert",
            user_id |-> user_id, guest_session_id |-> guest_session_id]]
    /\ last' = NoOp
    /\ UNCHANGED <<ip_credits, credits, generations, gen_req, payVars, jobVars,
                   job_tasks, guestVars, con, enqueued, constVars>>

\* Lines 78-79, create_user: INSERT INTO users; the unique index on email
\* rejects an address registered since the SELECT.
RegInsertUser(x) ==
    /\ reg[x].pc = "insert"
    /\ IF reg[x].user_id \in users
       THEN /\ reg' = [reg EXCEPT ![x].pc = "error"]
            /\ UNCHANGED users
       ELSE /\ users' = users \cup {reg[x].user_id}
            /\ reg' = [reg EXCEPT ![x].pc = "credits"]
    /\ last' = NoOp
    /\ UNCHANGED <<ip_credits, credits, generations, gen_req, payVars, jobVars,
                   job_tasks, guestVars, con, enqueued, DEFAULT_FREE_CREDITS,
                   now, free0, bal0>>

\* ensure_credits_row that inserts the row of credits without the
\* signup_bonus row of the ledger.
RegEnsureCreditsNoLedger(x) ==
    LET u == reg[x].user_id IN
    /\ reg[x].pc = "credits"
    /\ CreditsLockFree(u)
    /\ credits' = IF HasRow(credits, u) THEN credits
                  ELSE Put(credits, u, SIGNUP_FREE_CREDITS)
    /\ reg' = [reg EXCEPT ![x].pc = "claim"]
    /\ last' = NoOp
    /\ UNCHANGED <<ip_credits, generations, gen_req, payments, credit_ledger,
                   ful, meta, jobVars, job_tasks, guestVars, con, enqueued,
                   constVars>>

\* Line 87 and user.py lines 95-110, ensure_credits_row: in a transaction of
\* its own, INSERT INTO credits ... ON CONFLICT DO NOTHING and, for a new row
\* with a bonus, the signup_bonus row of the ledger.
RegEnsureCredits(x) ==
    LET u == reg[x].user_id IN
    /\ reg[x].pc = "credits"
    /\ CreditsLockFree(u)
    /\ IF HasRow(credits, u)
       THEN UNCHANGED <<credits, credit_ledger>>
       ELSE /\ credits' = Put(credits, u, SIGNUP_FREE_CREDITS)
            /\ credit_ledger' =
                   IF SIGNUP_FREE_CREDITS > 0
                   THEN Append(credit_ledger,
                               LedgerRow(u, SIGNUP_FREE_CREDITS, "signup_bonus",
                                         NULL))
                   ELSE credit_ledger
    /\ reg' = [reg EXCEPT ![x].pc = "claim"]
    /\ last' = NoOp
    /\ UNCHANGED <<ip_credits, generations, gen_req, payments, ful, meta,
                   jobVars, job_tasks, guestVars, con, enqueued, constVars>>

\* Lines 90-97: after the row of email_verifications, claim_guest_history for
\* the request's guest session.
RegClaim(x) ==
    /\ reg[x].pc = "claim"
    /\ generations' = ClaimGuestHistory(reg[x].user_id, reg[x].guest_session_id)
    /\ reg' = [reg EXCEPT ![x].pc = "done"]
    /\ last' = NoOp
    /\ UNCHANGED <<ip_credits, credits, gen_req, payVars, jobVars, job_tasks,
                   guestVars, con, enqueued, constVars>>

\* The request dies between two statements (connection lost, process killed,
\* statement error): what it has executed stays committed.
RegAbort(x) ==
    /\ reg[x].pc \in InRegister
    /\ reg' = [reg EXCEPT ![x].pc = "crashed"]
    /\ last' = NoOp
    /\ UNCHANGED <<ip_credits, credits, generations, gen_req, payVars, jobVars,
                   job_tasks, guestVars, con, enqueued, constVars>>

\* ---- specification of the accounts and the guest history ----

\* The Generations of the initial state: owned by the account u1 or by one of
\* the two guest sessions.
HistoryRows ==
    {[user_id |-> o[1], guest_session_id |-> o[2], status |-> "completed",
      error_message |-> NULL, created_at |-> 0, completed_at |-> <<0>>] :
        o \in {<<"u1", NULL>>, <<NULL, "g1">>, <<NULL, "g2">>}}

InitAccount ==
    /\ users = {"u1"}
    /\ DEFAULT_FREE_CREDITS = 0
    /\ ip_credits = <<>>
    /\ credits = [u \in {"u1"} |-> 0]
    /\ \E k \in 0..NumGen : generations \in [1..k -> HistoryRows]
    /\ gen_req = [r \in Req |-> IdleReq]
    /\ payments = <<>>
    /\ credit_ledger = <<>>
    /\ ful = [f \in Ful |-> IdleFul]
    /\ meta = [s \in SessIds |-> CHOOSE m \in MetaSet : MetaValid(m)]
    /\ generation_assets = {}
    /\ job_queue = <<>>
    /\ workers = [w \in Workers |-> IdleWorker]
    /\ dequeued = [r \in Req |-> 0]
    /\ job_tasks = Workers
    /\ guest_sessions = BaseSessions
    /\ gs_req = [q \in Res |-> IdleRes]
    /\ rotations = {}
    /\ last_seen_at = [id \in SessionIds(guest_sessions) |-> 0]
    /\ reg = [x \in Regs |-> IdleReg]
    /\ con = [c \in Cons |-> IdleCon]
    /\ enqueued = <<>>
    /\ now = 0
    /\ last = NoOp
    /\ free0 = [o \in Origins |-> EffectiveFree(o)]
    /\ bal0 = [u \in Users |-> UserCredits(u)]

NextAccount ==
    \/ \E x \in Regs, u \in Users : RegSelect(x, u, "g1")
    \/ \E x \in Regs : RegInsertUser(x)
    \/ \E x \in Regs : RegEnsureCredits(x)
    \/ \E x \in Regs : RegClaim(x)
    \/ \E x \in Regs : RegAbort(x)
    \/ \E u \in Users : Login(u, "g1")
    \/ \E token \in Cookies :
           /\ HasRow(guest_sessions, HashToken(token))
           /\ guest_sessions[HashToken(token)] = "g1"
           /\ ClearGuestHistory("g1", token)

SpecAccount == InitAccount /\ [][NextAccount]_vars

\* ---- consume_credits ----

\* credits.py line 6: users, the dict of the fallback.  db_pool is bound at
\* import, when it is None, so get_user_credits and set_user_credits always
\* use the dict; no code adds a key to it.
UsersDict == <<>>

\* credits.py lines 9-26, get_user_credits
GetUserCredits(email) ==
    IF HasRow(UsersDict, email) THEN UsersDict[email] ELSE 0

\* ip_credits.py lines 28-39, set_ip_credits: the upsert of
\* free_remaining = max(int(remaining), 0)
SetIpCredits(table, ip, remaining) ==
    Put(table, ip, IF remaining > 0 THEN remaining ELSE 0)

\* Lines 59-71: the paid part and the response.  set_user_credits changes the
\* dict only for a key it holds.
ConRespond(q) ==
    IF q.remaining > 0
    THEN IF q.user = NULL
         THEN [q EXCEPT !.pc = "done", !.response = LoginRequired]
         ELSE [q EXCEPT !.pc = "done",
                        !.user_credits =
                            IF q.user_credits - q.remaining > 0
                            THEN q.user_credits - q.remaining ELSE 0,
                        !.response = [code |-> 200, detail |-> "credits"]]
    ELSE [q EXCEPT !.pc = "done",
                   !.response = [code |-> 200, detail |-> "credits"]]

\* Lines 42-57: amount = max(int(amount), 1); get_ip_credits (the SELECT, and
\* for a new origin the INSERT of the default row, which waits for a
\* transaction that is inserting the row); get_user_credits; the check of the
\* total; the split of the amount.
ConRead(c, ip, user, amount) ==
    LET free_credits == EffectiveFree(ip)
        user_credits == IF user # NULL THEN GetUserCredits(user) ELSE 0
        consume == IF free_credits < amount THEN free_credits ELSE amount
        q == [pc |-> "set_ip", ip |-> ip, user |-> user, amount |-> amount,
              free_credits |-> free_credits, user_credits |-> user_credits,
              remaining |-> amount, response |-> IdleCon.response]
    IN /\ con[c].pc = "idle"
       /\ \A b \in Cons : b < c => con[b].pc # "idle"
       /\ amount >= 1
       /\ user # NULL => user \in users
       /\ HasRow(ip_credits, ip) \/ IpLockFree(ip)
       /\ ip_credits' = IF HasRow(ip_credits, ip) THEN ip_credits
                        ELSE Put(ip_credits, ip, DEFAULT_FREE_CREDITS)
       /\ con' = [con EXCEPT ![c] =
              IF free_credits + user_credits < amount
              THEN [q EXCEPT !.pc = "done", !.response = InsufficientCredits]
              ELSE IF free_credits > 0
                   THEN [q EXCEPT !.free_credits = free_credits - consume,
                                  !.remaining = amount - consume]
                   ELSE ConRespond(q)]
       /\ last' = NoOp
       /\ UNCHANGED <<credits, generations, gen_req, payVars, jobVars,
                      job_tasks, guestVars, reg, enqueued, constVars>>

\* Line 57: await set_ip_credits(ip, free_credits), on a connection of its
\* own; the upsert waits for the transaction that holds the row.
ConSetIp(c) ==
    /\ con[c].pc = "set_ip"
    /\ IpLockFree(con[c].ip)
    /\ ip_credits' = SetIpCredits(ip_credits, con[c].ip, con[c].free_credits)
    /\ con' = [con EXCEPT ![c] = ConRespond(@)]
    /\ last' = NoOp
    /\ UNCHANGED <<credits, generations, gen_req, payVars, jobVars, job_tasks,
                   guestVars, reg, enqueued, constVars>>

\* ---- specification of the concurrent consumption of free credits ----

InitConsume ==
    /\ users = Users
    /\ DEFAULT_FREE_CREDITS \in 0..MaxFree
    /\ ip_credits \in Tables({"ip1"}, 0..MaxCredits)
    /\ credits = <<>>
    /\ generations = <<>>
    /\ gen_req = [r \in Req |-> IdleReq]
    /\ payments = <<>>
    /\ credit_ledger = <<>>
    /\ ful = [f \in Ful |-> IdleFul]
    /\ meta = [s \in SessIds |-> CHOOSE m \in MetaSet : MetaValid(m)]
    /\ generation_assets = {}
    /\ job_queue = <<>>
    /\ workers = [w \in Workers |-> IdleWorker]
    /\ dequeued = [r \in Req |-> 0]
    /\ job_tasks = Workers
    /\ guest_sessions = BaseSessions
    /\ gs_req = [q \in Res |-> IdleRes]
    /\ rotations = {}
    /\ last_seen_at = [id \in SessionIds(guest_sessions) |-> 0]
    /\ reg = [x \in Regs |-> IdleReg]
    /\ con = [c \in Cons |-> IdleCon]
    /\ enqueued = <<>>
    /\ now = 0
    /\ last = NoOp
    /\ free0 = [o \in Origins |-> EffectiveFree(o)]
    /\ bal0 = [u \in Users |-> UserCredits(u)]

\* Every caller is at the origin ip1; create-generation is requested without
\* account.
NextConsume ==
    \/ \E c \in Cons, user \in {NULL, "u1"}, amount \in 1..MaxCredits :
           ConRead(c, "ip1", user, amount)
    \/ \E c \in Cons : ConSetIp(c)
    \/ \E r \in Req : GenClaimIp(r, "ip1", NULL, "g1")
    \/ \E r \in Req : GenRestore(r)
    \/ \E r \in Req : GenCommit(r)
    \/ \E r \in Req : GenAbort(r)

SpecConsume == InitConsume /\ [][NextConsume]_vars

\* ---- specification of the credit consumption ----

InitCredit ==
    /\ users = Users
    /\ DEFAULT_FREE_CREDITS \in 0..MaxFree
    /\ ip_credits \in Tables({"ip1"}, 0..MaxFree)
    /\ credits \in Tables(Users, 0..MaxBal)
    /\ generations = <<>>
    /\ gen_req = [r \in Req |-> IdleReq]
    /\ payments = <<>>
    /\ credit_ledger = <<>>
    /\ ful = [f \in Ful |-> IdleFul]
    /\ meta = [s \in SessIds |-> CHOOSE m \in MetaSet : MetaValid(m)]
    /\ generation_assets = {}
    /\ job_queue = <<>>
    /\ workers = [w \in Workers |-> IdleWorker]
    /\ dequeued = [r \in Req |-> 0]
    /\ job_tasks = Workers
    /\ guest_sessions = BaseSessions
    /\ gs_req = [q \in Res |-> IdleRes]
    /\ rotations = {}
    /\ last_seen_at = [id \in SessionIds(guest_sessions) |-> 0]
    /\ reg = [x \in Regs |-> IdleReg]
    /\ con = [c \in Cons |-> IdleCon]
    /\ enqueued = <<>>
    /\ now = 0
    /\ last = NoOp
    /\ free0 = [o \in Origins |-> EffectiveFree(o)]
    /\ bal0 = [u \in Users |-> UserCredits(u)]

NextCredit ==
    \E r \in Req :
        \/ \E ip \in Origins, user \in Users \cup {NULL}, guest \in {"g1"} :
               GenClaimIp(r, ip, user, guest)
        \/ GenRestore(r)
        \/ GenLockCredits(r)
        \/ GenCommit(r)
        \/ GenAbort(r)

SpecCredit == InitCredit /\ [][NextCredit]_vars

\* ---- specification of the payment fulfillment ----

InitPay ==
    /\ users = Users
    /\ DEFAULT_FREE_CREDITS = 0
    /\ ip_credits = <<>>
    /\ credits \in Tables(Users, 0..MaxBal)
    /\ generations = <<>>
    /\ gen_req = [r \in Req |-> IdleReq]
    /\ payments = <<>>
    /\ credit_ledger = <<>>
    /\ ful = [f \in Ful |-> IdleFul]
    /\ meta \in [SessIds -> MetaSet]
    /\ generation_assets = {}
    /\ job_queue = <<>>
    /\ workers = [w \in Workers |-> IdleWorker]
    /\ dequeued = [r \in Req |-> 0]
    /\ job_tasks = Workers
    /\ guest_sessions = BaseSessions
    /\ gs_req = [q \in Res |-> IdleRes]
    /\ rotations = {}
    /\ last_seen_at = [id \in SessionIds(guest_sessions) |-> 0]
    /\ reg = [x \in Regs |-> IdleReg]
    /\ con = [c \in Cons |-> IdleCon]
    /\ enqueued = <<>>
    /\ now = 0
    /\ last = NoOp
    /\ free0 = [o \in Origins |-> EffectiveFree(o)]
    /\ bal0 = [u \in Users |-> UserCredits(u)]

NextPay ==
    \/ \E s \in SessIds, u \in Users, c \in 1..MaxCredits : Checkout(s, u, c)
    \/ \E s \in SessIds, status \in {"failed", "canceled"} : MarkStatus(s, status)
    \/ \E f \in Ful :
        \/ \E s \in SessIds : FulSelect(f, s)
        \/ FulInsert(f)
        \/ FulRefetch(f)
        \/ FulLedger(f)
        \/ FulCredit(f)
        \/ FulMarkFulfilled(f)
        \/ FulAbort(f)

SpecPay == InitPay /\ [][NextPay]_vars

\* ---- specification of the ownership of Generations ----

\* The rows generate_image and claim_guest_history leave: owned by an account
\* or by a guest session, never by both.  The ids are opaque: the rows of the
\* initial table are numbered in the order of created_at.
OwnedRows ==
    {[user_id |-> o[1], guest_session_id |-> o[2], status |-> "queued",
      error_message |-> NULL, created_at |-> t, completed_at |-> NoTime] :
        o \in (Users \X {NULL}) \cup ({NULL} \X GuestIds), t \in 0..MaxTime}

InitOwn ==
    /\ users = Users
    /\ DEFAULT_FREE_CREDITS = 0
    /\ ip_credits = <<>>
    /\ credits = <<>>
    /\ \E k \in 0..NumGen :
           /\ generations \in [1..k -> OwnedRows]
           /\ \A i, j \in 1..k :
                  i < j => generations[i].created_at <= generations[j].created_at
    /\ gen_req = [r \in Req |-> IdleReq]
    /\ payments = <<>>
    /\ credit_ledger = <<>>
    /\ ful = [f \in Ful |-> IdleFul]
    /\ meta = [s \in SessIds |-> CHOOSE m \in MetaSet : MetaValid(m)]
    /\ generation_assets = {}
    /\ job_queue = <<>>
    /\ workers = [w \in Workers |-> IdleWorker]
    /\ dequeued = [r \in Req |-> 0]
    /\ job_tasks = Workers
    /\ guest_sessions = BaseSessions
    /\ gs_req = [q \in Res |-> IdleRes]
    /\ rotations = {}
    /\ last_seen_at = [id \in SessionIds(guest_sessions) |-> 0]
    /\ reg = [x \in Regs |-> IdleReg]
    /\ con = [c \in Cons |-> IdleCon]
    /\ enqueued = <<>>
    /\ now = MaxTime
    /\ last = NoOp
    /\ free0 = [o \in Origins |-> EffectiveFree(o)]
    /\ bal0 = [u \in Users |-> UserCredits(u)]

\* The callers of the queries: anonymous or logged in, with a guest session.
\* Accounts and guest sessions are interchangeable and the initial tables hold
\* every owner, so one account and one guest session stand for all.
Callers == {NULL, "u1"} \X {"g1"}

NextOwn ==
    \/ \E u \in Users, g \in GuestIds : Login(u, g)
    \/ \E c \in Callers, id \in 1..NumGen : GetStatus(c[1], c[2], id)
    \/ \E c \in Callers, scope \in Scopes, limit \in {1, NumGen, LIST_MAX + 1},
          cursor \in {NULL, "abc", IsoFormat(MaxTime)} :
               ListGenerations(c[1], c[2], scope, limit, cursor)

SpecOwn == InitOwn /\ [][NextOwn]_vars

\* ---- specification of a walk through the history ----

\* No Generation is created or deleted: the table is the initial one, and the
\* only steps are the calls of one caller's walk.
NextPaging ==
    \E c \in Callers, limit \in 1..NumGen : ListNextPage(c[1], c[2], limit)

SpecPaging == InitOwn /\ [][NextPaging]_vars

\* ---- specification of the job lifecycle ----

\* A new origin whose free credits cover every request.
InitJob ==
    /\ users = Users
    /\ DEFAULT_FREE_CREDITS = NumJobs
    /\ ip_credits = <<>>
    /\ credits = <<>>
    /\ generations = <<>>
    /\ gen_req = [r \in Req |-> IdleReq]
    /\ payments = <<>>
    /\ credit_ledger = <<>>
    /\ ful = [f \in Ful |-> IdleFul]
    /\ meta = [s \in SessIds |-> CHOOSE m \in MetaSet : MetaValid(m)]
    /\ generation_assets = {}
    /\ job_queue = <<>>
    /\ workers = [w \in Workers |-> IdleWorker]
    /\ dequeued = [r \in Req |-> 0]
    /\ job_tasks = Workers
    /\ guest_sessions = BaseSessions
    /\ gs_req = [q \in Res |-> IdleRes]
    /\ rotations = {}
    /\ last_seen_at = [id \in SessionIds(guest_sessions) |-> 0]
    /\ reg = [x \in Regs |-> IdleReg]
    /\ con = [c \in Cons |-> IdleCon]
    /\ enqueued = <<>>
    /\ now = 0
    /\ last = NoOp
    /\ free0 = [o \in Origins |-> EffectiveFree(o)]
    /\ bal0 = [u \in Users |-> UserCredits(u)]

NextJob ==
    \/ \E r \in 1..NumJobs, c \in Callers : GenClaimIp(r, "ip1", c[1], c[2])
    \/ \E r \in 1..NumJobs : GenCommit(r)
    \/ \E r \in 1..NumJobs : GenPersistInput(r)
    \/ \E r \in 1..NumJobs : GenEnqueue(r)
    \/ \E r \in 1..NumJobs : GenPostFail(r)
    \/ \E w \in Workers : WorkerGet(w)
    \/ \E w \in Workers : WorkerMarkProcessing(w)
    \/ \E w \in Workers : WorkerRun(w)
    \/ \E w \in Workers : WorkerMarkCompleted(w)
    \/ \E w \in Workers : WorkerMarkFailed(w)
    \/ \E u \in Users : Login(u, "g1")
    \/ \E token \in Cookies :
           /\ HasRow(guest_sessions, HashToken(token))
           /\ guest_sessions[HashToken(token)] = "g1"
           /\ ClearGuestHistory("g1", token)
    \/ StopWorkers

SpecJob == InitJob /\ [][NextJob]_vars

\* ---- specification of the accounts' balances ----

\* No account, no Payment, no free credits: every balance comes from a
\* registration or a purchase.
InitLedger ==
    /\ users = {}
    /\ DEFAULT_FREE_CREDITS = 0
    /\ ip_credits = <<>>
    /\ credits = <<>>
    /\ generations = <<>>
    /\ gen_req = [r \in Req |-> IdleReq]
    /\ payments = <<>>
    /\ credit_ledger = <<>>
    /\ ful = [f \in Ful |-> IdleFul]
    /\ meta = [s \in SessIds |->
                  [user_id |-> "u1", pack_id |-> "pack", credits |-> "1"]]
    /\ generation_assets = {}
    /\ job_queue = <<>>
    /\ workers = [w \in Workers |-> IdleWorker]
    /\ dequeued = [r \in Req |-> 0]
    /\ job_tasks = Workers
    /\ guest_sessions = BaseSessions
    /\ gs_req = [q \in Res |-> IdleRes]
    /\ rotations = {}
    /\ last_seen_at = [id \in SessionIds(guest_sessions) |-> 0]
    /\ reg = [x \in Regs |-> IdleReg]
    /\ con = [c \in Cons |-> IdleCon]
    /\ enqueued = <<>>
    /\ now = 0
    /\ last = NoOp
    /\ free0 = [o \in Origins |-> EffectiveFree(o)]
    /\ bal0 = [u \in Users |-> UserCredits(u)]

\* One address registers; its account buys credits and requests Generations.
NextLedger ==
    \/ \E x \in Regs : RegSelect(x, "u1", "g1")
    \/ \E x \in Regs : RegInsertUser(x)
    \/ \E x \in Regs : RegEnsureCredits(x)
    \/ \E x \in Regs : RegClaim(x)
    \/ \E x \in Regs : RegAbort(x)
    \/ \E s \in SessIds, f \in Ful : FulSelect(f, s)
    \/ \E f \in Ful : FulInsert(f)
    \/ \E f \in Ful : FulRefetch(f)
    \/ \E f \in Ful : FulLedger(f)
    \/ \E f \in Ful : FulCredit(f)
    \/ \E f \in Ful : FulMarkFulfilled(f)
    \/ \E f \in Ful : FulAbort(f)
    \/ \E r \in Req : GenClaimIp(r, "ip1", "u1", "g1")
    \/ \E r \in Req : GenRestore(r)
    \/ \E r \in Req : GenLockCredits(r)
    \/ \E r \in Req : GenCommit(r)
    \/ \E r \in Req : GenAbort(r)

SpecLedger == InitLedger /\ [][NextLedger]_vars

\* ---- cleanup_old_guest_sessions ----

\* config.py: GUEST_RETENTION_DAYS; the clock of this part counts days.
GUEST_RETENTION_DAYS == 30

\* x NOT IN (subquery): true when the subquery returns neither x nor a NULL;
\* with a NULL among its rows the predicate is NULL and the row is filtered.
SqlNotIn(x, subquery) == x \notin subquery /\ NULL \notin subquery

\* cleanup.py lines 50-54: SELECT DISTINCT guest_session_id FROM generations
\* WHERE user_id IS NOT NULL
ClaimedGuestSessions ==
    {generations[id].guest_session_id :
        id \in {g \in DOMAIN generations : generations[g].user_id # NULL}}

\* cleanup.py lines 43-58: the guest sessions the first query returns.
OldGuestSessions(days) ==
    {id \in DOMAIN last_seen_at :
        /\ last_seen_at[id] < now - days
        /\ SqlNotIn(id, ClaimedGuestSessions)}

\* cleanup.py lines 32-111, cleanup_old_guest_sessions: nothing when the
\* query returns no row; else the Generations of the sessions found are
\* deleted (their assets cascade), then the rows of the sessions.
Cleanup(days) ==
    LET guest_session_ids == OldGuestSessions(days)
        deleted == {id \in DOMAIN generations :
                       generations[id].guest_session_id \in guest_session_ids}
    IN /\ generations' = [id \in DOMAIN generations \ deleted |->
                             generations[id]]
       /\ generation_assets' = {a \in generation_assets : a[1] \notin deleted}
       /\ guest_sessions' =
              [h \in {k \in DOMAIN guest_sessions :
                         guest_sessions[k] \notin guest_session_ids} |->
                  guest_sessions[h]]
       /\ last_seen_at' = [id \in DOMAIN last_seen_at \ guest_session_ids |->
                              last_seen_at[id]]
       /\ last' = [op |-> "cleanup", days |-> days,
                   guest_sessions_deleted |-> Cardinality(guest_session_ids)]
       /\ UNCHANGED <<ip_credits, credits, gen_req, payVars, job_queue, workers,
                      dequeued, job_tasks, gs_req, rotations, reg, con,
                      enqueued, constVars>>

\* ---- specification of the retention cleanup ----

\* The clock is past the retention period; a session was last seen at the
\* start, exactly the retention period ago, or now.
InitCleanup ==
    /\ users = Users
    /\ DEFAULT_FREE_CREDITS = 0
    /\ ip_credits = <<>>
    /\ credits = <<>>
    /\ \E k \in 0..NumGen : generations \in [1..k -> HistoryRows]
    /\ gen_req = [r \in Req |-> IdleReq]
    /\ payments = <<>>
    /\ credit_ledger = <<>>
    /\ ful = [f \in Ful |-> IdleFul]
    /\ meta = [s \in SessIds |-> CHOOSE m \in MetaSet : MetaValid(m)]
    /\ generation_assets = {}
    /\ job_queue = <<>>
    /\ workers = [w \in Workers |-> IdleWorker]
    /\ dequeued = [r \in Req |-> 0]
    /\ job_tasks = Workers
    /\ guest_sessions = BaseSessions
    /\ gs_req = [q \in Res |-> IdleRes]
    /\ rotations = {}
    /\ now = GUEST_RETENTION_DAYS + MaxTime
    /\ last_seen_at \in [SessionIds(guest_sessions) ->
                            {0, MaxTime, GUEST_RETENTION_DAYS + MaxTime}]
    /\ reg = [x \in Regs |-> IdleReg]
    /\ con = [c \in Cons |-> IdleCon]
    /\ enqueued = <<>>
    /\ last = NoOp
    /\ free0 = [o \in Origins |-> EffectiveFree(o)]
    /\ bal0 = [u \in Users |-> UserCredits(u)]

NextCleanup ==
    \/ Cleanup(GUEST_RETENTION_DAYS)
    \/ \E u \in Users : Login(u, "g1")

SpecCleanup == InitCleanup /\ [][NextCleanup]_vars

\* ---- specification of the worker pool ----

\* Every request has committed its Generation, paid with a free credit of the
\* origin ip1, and has inserted its input asset; no worker has been started.
AssetReq ==
    [IdleReq EXCEPT !.pc = "asset", !.ip = "ip1", !.guest_session_id = "g1",
                    !.ip_credit_used = TRUE]

InitPool ==
    /\ users = Users
    /\ DEFAULT_FREE_CREDITS = NumReq
    /\ ip_credits = [ip \in {"ip1"} |-> 0]
    /\ credits = <<>>
    /\ generations = [id \in Req |->
           [user_id |-> NULL, guest_session_id |-> "g1", status |-> "queued",
            error_message |-> NULL, created_at |-> 0,
            completed_at |-> NoTime]]
    /\ gen_req = [r \in Req |-> AssetReq]
    /\ payments = <<>>
    /\ credit_ledger = <<>>
    /\ ful = [f \in Ful |-> IdleFul]
    /\ meta = [s \in SessIds |-> CHOOSE m \in MetaSet : MetaValid(m)]
    /\ generation_assets = {<<r, "input">> : r \in Req}
    /\ job_queue = <<>>
    /\ workers = [w \in Workers |-> NoTask]
    /\ dequeued = [r \in Req |-> 0]
    /\ job_tasks = {}
    /\ guest_sessions = BaseSessions
    /\ gs_req = [q \in Res |-> IdleRes]
    /\ rotations = {}
    /\ last_seen_at = [id \in SessionIds(guest_sessions) |-> 0]
    /\ reg = [x \in Regs |-> IdleReg]
    /\ con = [c \in Cons |-> IdleCon]
    /\ enqueued = <<>>
    /\ now = 0
    /\ last = NoOp
    /\ free0 = [o \in Origins |-> EffectiveFree(o)]
    /\ bal0 = [u \in Users |-> UserCredits(u)]

\* The steps of the worker w.
WorkerStep(w) ==
    \/ WorkerGet(w)
    \/ WorkerMarkProcessing(w)
    \/ WorkerRun(w)
    \/ WorkerMarkCompleted(w)
    \/ WorkerMarkFailed(w)

NextPool ==
    \/ \E r \in Req : GenEnqueue(r)
    \/ \E w \in Workers : WorkerStep(w)
    \/ \E worker_count \in 1..JOB_WORKERS : StartWorkers(worker_count)
    \/ StopWorkers

SpecPool == InitPool /\ [][NextPool]_vars

\* The pool without shutdown: started once, every worker is scheduled again
\* and again (asyncio runs every task that is ready), and every request
\* goes on to its enqueue.
NextRun ==
    \/ \E r \in Req : GenEnqueue(r)
    \/ \E w \in Workers : WorkerStep(w)
    \/ \E worker_count \in 1..JOB_WORKERS : StartWorkers(worker_count)

SpecRun ==
    /\ InitPool
    /\ [][NextRun]_vars
    /\ WF_vars(StartWorkers(JOB_WORKERS))
    /\ \A r \in Req : WF_vars(GenEnqueue(r))
    /\ \A w \in Workers : WF_vars(WorkerStep(w))

\* ---- specification of the guest sessions ----

\* One guest session, with a Generation; the cookie "t2" is one that has no
\* row (any more).
InitGuest ==
    /\ users = Users
    /\ DEFAULT_FREE_CREDITS = 0
    /\ ip_credits = <<>>
    /\ credits = <<>>
    /\ generations = [id \in {1} |->
           [user_id |-> NULL, guest_session_id |-> "g1", status |-> "queued",
            error_message |-> NULL, created_at |-> 0,
            completed_at |-> NoTime]]
    /\ gen_req = [r \in Req |-> IdleReq]
    /\ payments = <<>>
    /\ credit_ledger = <<>>
    /\ ful = [f \in Ful |-> IdleFul]
    /\ meta = [s \in SessIds |-> CHOOSE m \in MetaSet : MetaValid(m)]
    /\ generation_assets = {}
    /\ job_queue = <<>>
    /\ workers = [w \in Workers |-> IdleWorker]
    /\ dequeued = [r \in Req |-> 0]
    /\ job_tasks = Workers
    /\ guest_sessions = [h \in {HashToken("t1")} |-> "g1"]
    /\ gs_req = [q \in Res |-> IdleRes]
    /\ rotations = {}
    /\ last_seen_at = [id \in SessionIds(guest_sessions) |-> 0]
    /\ reg = [x \in Regs |-> IdleReg]
    /\ con = [c \in Cons |-> IdleCon]
    /\ enqueued = <<>>
    /\ now = 0
    /\ last = NoOp
    /\ free0 = [o \in Origins |-> EffectiveFree(o)]
    /\ bal0 = [u \in Users |-> UserCredits(u)]

NextGuest ==
    \/ \E q \in Res, token \in Cookies : GsSelect(q, token)
    \/ \E q \in Res : GsNoCookie(q)
    \/ \E q \in Res : GsInsert(q)
    \/ \E q \in Res : GsTouch(q)
    \/ \E q \in Res :
           /\ gs_req[q].pc = "done"
           /\ ClearGuestHistory(gs_req[q].guest_session_id, gs_req[q].token)

SpecGuest == InitGuest /\ [][NextGuest]_vars

\* ---- claims about the credit consumption ----

FreeSuccesses(o) ==
    {r \in Req : gen_req[r].pc \in PostTx /\ gen_req[r].ip = o
                 /\ gen_req[r].ip_credit_used}

PaidSuccesses(u) ==
    {r \in Req : gen_req[r].pc \in PostTx /\ gen_req[r].user_id = u
                 /\ gen_req[r].user_credit_used}

\* C1: with any number of concurrent create-generation requests against an
\* origin whose free balance starts at N, at most N requests succeed with a
\* free-pool debit, and the committed free_remaining is never negative.
C1_NoFreeOverspend ==
    \A o \in Origins :
        /\ Cardinality(FreeSuccesses(o)) <= free0[o]
        /\ HasRow(ip_credits, o) => ip_credits[o] >= 0

\* The free pool of an origin that started with one credit has been spent by
\* one request, and another request against the same origin got no free credit.
C1_Witness ==
    \E o \in Origins, r \in Req :
        /\ free0[o] = 1
        /\ Cardinality(FreeSuccesses(o)) = 1
        /\ gen_req[r].pc \in PostTx \cup {"rejected"}
        /\ gen_req[r].ip = o
        /\ ~gen_req[r].ip_credit_used

\* C2: with any number of concurrent create-generation requests against an
\* account with paid balance M (the free pool being exhausted), at most M
\* requests succeed with a paid debit, and the committed balance is never
\* below 0.
C2_NoPaidOverspend ==
    \A u \in Users :
        /\ Cardinality(PaidSuccesses(u)) <= bal0[u]
        /\ HasRow(credits, u) => credits[u] >= 0

\* An account that started with one paid credit has spent it, and another
\* request of the same account was rejected for lack of credits.
C2_Witness ==
    \E u \in Users, r \in Req :
        /\ bal0[u] = 1
        /\ Cardinality(PaidSuccesses(u)) = 1
        /\ gen_req[r].pc = "rejected"
        /\ gen_req[r].user_id = u

\* C4: create-generation is all-or-nothing: in every committed state each
\* request has either debited exactly one credit and created exactly one
\* queued Generation, or changed no balance and created no Generation; the
\* balances are the initial ones minus the debits of the requests that
\* created their Generation.
C4_DebitAndJobAtomic ==
    /\ \A r \in Req :
           IF HasRow(generations, r)
           THEN /\ gen_req[r].pc \in PostTx
                /\ gen_req[r].ip_credit_used # gen_req[r].user_credit_used
                /\ generations[r].status = "queued"
           ELSE gen_req[r].pc \notin PostTx
    /\ \A o \in Origins :
           EffectiveFree(o) = free0[o] - Cardinality(FreeSuccesses(o))
    /\ \A u \in Users :
           UserCredits(u) = bal0[u] - Cardinality(PaidSuccesses(u))

\* One request has died inside its transaction after claiming a credit, and
\* another has committed its debit together with its Generation.
C4_Witness ==
    \E r, p \in Req :
        /\ gen_req[r].pc = "error"
        /\ gen_req[r].ip_credit_used
        /\ gen_req[p].pc \in PostTx
        /\ HasRow(generations, p)

\* total = free_remaining + user_credits of the caller of request r, read from
\* the committed tables.
Total(r) ==
    EffectiveFree(gen_req[r].ip)
    + (IF gen_req[r].user_id # NULL THEN UserCredits(gen_req[r].user_id) ELSE 0)

\* C15: a create-generation request whose caller has less than one credit in
\* total never commits; its rejection changes no committed row: no origin row
\* is created or altered, no balance changes and no Generation is created.
C15_RejectionChangesNothing ==
    [][\A r \in Req :
           /\ (gen_req[r].pc = "check" /\ gen_req'[r].pc \in PostTx)
                  => Total(r) >= 1
           /\ (gen_req[r].pc = "check" /\ gen_req'[r].pc = "rejected")
                  => /\ Total(r) < 1
                     /\ UNCHANGED <<ip_credits, credits, generations>>
                     /\ ~HasRow(generations', r)]_vars

\* A signed-in caller without any credit, from an origin that has no row and
\* no default credits, has been rejected; the origin still has no row.
C15_Witness ==
    \E r \in Req :
        /\ gen_req[r].pc = "rejected"
        /\ gen_req[r].user_id # NULL
        /\ Total(r) = 0
        /\ ~HasRow(ip_credits, gen_req[r].ip)
        /\ ~HasRow(generations, r)

\* C16: a create-generation request of a caller without account whose
\* origin's free pool is exhausted fails with LoginRequiredForPaidCredits, an
\* outcome distinct from InsufficientCredits.
C16_GuestGetsLoginRequired ==
    \A r \in Req :
        (/\ gen_req[r].pc = "rejected"
         /\ gen_req[r].user_id = NULL
         /\ EffectiveFree(gen_req[r].ip) = 0)
            => GenResponse(r) = LoginRequired

\* C17: a successful create-generation debits exactly one credit from exactly
\* one pool: the origin's free pool whenever it held a credit, the account's
\* balance being unchanged; the account's paid balance only when the free pool
\* was 0, the origin's committed free_remaining being the same as before. No
\* other origin and no other account changes.
C17_OneDebitFromOnePool ==
    [][\A r \in Req :
           (gen_req[r].pc = "check" /\ gen_req'[r].pc \in PostTx) =>
               LET q == gen_req[r]
                   f == EffectiveFree(q.ip)
               IN /\ q.ip_credit_used # q.user_credit_used
                  /\ f >= 1 => /\ q.ip_credit_used
                               /\ EffectiveFree(q.ip)' = f - 1
                               /\ credits' = credits
                  /\ f < 1 => /\ q.user_credit_used
                              /\ f = 0
                              /\ EffectiveFree(q.ip)' = f
                              /\ UserCredits(q.user_id)' =
                                     UserCredits(q.user_id) - 1
                  /\ \A o \in Origins \ {q.ip} :
                         EffectiveFree(o)' = EffectiveFree(o)
                  /\ \A u \in Users \ {q.user_id} :
                         UserCredits(u)' = UserCredits(u)]_vars

\* A signed-in caller has paid one request from the origin's free pool, the
\* balance of the account still being the initial one, and the next request
\* from the account's balance, the origin's free pool staying at 0.
C17_Witness ==
    \E r, p \in Req, u \in Users :
        /\ gen_req[r].pc \in PostTx /\ gen_req[p].pc \in PostTx
        /\ gen_req[r].user_id = u /\ gen_req[p].user_id = u
        /\ gen_req[r].ip = gen_req[p].ip
        /\ gen_req[r].ip_credit_used /\ ~gen_req[r].user_credit_used
        /\ gen_req[p].user_credit_used /\ ~gen_req[p].ip_credit_used
        /\ free0[gen_req[r].ip] = 1 /\ EffectiveFree(gen_req[r].ip) = 0
        /\ bal0[u] = 1 /\ UserCredits(u) = 0

\* ---- claims about the payment fulfillment ----

Fulfilled(s) == HasRow(payments, s) /\ payments[s].status = "fulfilled"

\* The credits of the fulfilled Payments of an account.
FulfilledCredits(u) ==
    LET Cr(s) == payments[s].credits
    IN SumSet(Cr, {s \in SessIds : Fulfilled(s) /\ payments[s].user_id = u})

\* The ledger holds exactly one row for the session: the Payment's purchase.
OneLedgerRow(s) ==
    /\ Cardinality(LedgerFor(s)) = 1
    /\ \A i \in LedgerFor(s) :
           credit_ledger[i] = LedgerRow(payments[s].user_id,
                                        payments[s].credits, "purchase", s)

\* C3: however often and however concurrently the same confirmation event is
\* delivered, the account's balance grows by the Payment's credits exactly
\* once, and exactly one CreditLedgerEntry exists for the session id.
C3_FulfilledExactlyOnce ==
    /\ \A s \in SessIds : Cardinality(LedgerFor(s)) <= 1
    /\ \A u \in Users : UserCredits(u) = bal0[u] + FulfilledCredits(u)
    /\ \A f \in Ful :
           ful[f].result \in {"fulfilled", "replay"} =>
               Fulfilled(ful[f].sid) /\ OneLedgerRow(ful[f].sid)

\* Two deliveries of the event of one session have completed: one granted the
\* credits, the other found the Payment fulfilled.
C3_Witness ==
    \E f, g \in Ful :
        /\ ful[f].sid = ful[g].sid
        /\ ful[f].result = "fulfilled"
        /\ ful[g].result = "replay"
        /\ bal0[payments[ful[f].sid].user_id] > 0

\* C5: a failure or expiry event processed when the Payment is fulfilled
\* changes neither the Payment's status nor any balance.
C5_LateFailureIsNoOp ==
    (last.op = "mark" /\ last.old = "fulfilled") =>
        /\ payments[last.sid].status = "fulfilled"
        /\ payments[last.sid].fulfilled_at
        /\ credits = last.credits
        /\ \A u \in Users : UserCredits(u) = bal0[u] + FulfilledCredits(u)

\* A failure or expiry event has just been processed for a fulfilled Payment.
C5_Witness == last.op = "mark" /\ last.old = "fulfilled"

\* The last step wrote a status that differs from the one the row had.
StatusChanged ==
    last.op \in {"status", "mark"} /\ last.old # "none" /\ last.old # last.new

C7_CrashThenRetryConverges ==
    \A f \in Ful :
        ful[f].result \in {"crashed", "crashed_after_ledger"} =>
            /\ Cardinality(LedgerFor(ful[f].sid)) =
                   IF Fulfilled(ful[f].sid) THEN 1 ELSE 0
            /\ HasRow(payments, ful[f].sid) =>
                   payments[ful[f].sid].status # "paid"
            /\ \A u \in Users : UserCredits(u) = bal0[u] + FulfilledCredits(u)
            /\ \A g \in Ful :
                   (ful[g].sid = ful[f].sid
                    /\ ful[g].result \in {"fulfilled", "replay"}) =>
                       Fulfilled(ful[f].sid) /\ OneLedgerRow(ful[f].sid)

\* An execution died between the ledger insert and the fulfilled mark, and a
\* later delivery of the same event has fulfilled the Payment.
C7_Witness ==
    \E f, g \in Ful :
        /\ ful[f].result = "crashed_after_ledger"
        /\ ful[g].sid = ful[f].sid
        /\ ful[g].result = "fulfilled"


\* The metadata the confirmation event of session s carries is invalid: a
\* field is missing, the account reference is malformed, the credits are not
\* a positive integer, the pack id is empty, or the account does not exist.
InvalidMetadata(s) ==
    LET m == meta[s] IN
    \/ m.user_id = NULL \/ m.pack_id = NULL \/ m.credits = NULL
    \/ m.user_id \notin WellFormedIds
    \/ m.credits \notin IntStrings
    \/ IntOf(m.credits) <= 0
    \/ m.pack_id \in {"", " "}
    \/ m.user_id \notin users

\* C23: a confirmation event for a session without Payment row whose
\* metadata is invalid is rejected at once and changes nothing: no Payment
\* row, no CreditLedgerEntry, no balance.
C23_InvalidMetadataChangesNothing ==
    [][\A f \in Ful :
           (/\ ful[f].pc = "idle"
            /\ ful'[f].pc # "idle"
            /\ ~HasRow(payments, ful'[f].sid)
            /\ InvalidMetadata(ful'[f].sid))
               => /\ ful'[f] = DoneFul(ful'[f].sid, "invalid")
                  /\ UNCHANGED <<payments, credit_ledger, credits>>]_vars

\* The event of a session whose metadata names an account that does not exist
\* has been rejected, and the session has no Payment row.
C23_Witness ==
    \E f \in Ful :
        /\ ful[f].result = "invalid"
        /\ meta[ful[f].sid].user_id = "ghost"
        /\ ~HasRow(payments, ful[f].sid)
        /\ credit_ledger = <<>>
        /\ \A u \in Users : UserCredits(u) = bal0[u]

\* C24: an execution of fulfill whose insert of the Payment row hits the
\* uniqueness violation goes on with the existing row in the same execution:
\* its next statement fetches the row, and it ends with the Payment fulfilled.
C24_InsertRaceLoserContinues ==
    [][\A f \in Ful :
           (ful[f].pc = "refetch" /\ ful'[f] # ful[f])
               => \/ ful'[f].pc = "ledger"
                  \/ ful'[f] = DoneFul(ful[f].sid, "replay")]_vars

\* ---- claims about the ownership of Generations ----

\* The caller is an owner of the row: its account id is the row's user_id or
\* its guest session id is the row's guest_session_id.
Owns(user_id, guest_session_id, row) ==
    \/ user_id # NULL /\ row.user_id = user_id
    \/ guest_session_id # NULL /\ row.guest_session_id = guest_session_id

\* C8: a status request by a caller who owns the job neither by account nor
\* by guest session is answered with the not-found response of a job id that
\* does not exist, which carries no field of the job.
C8_NonOwnerGetsNotFound ==
    last.op = "get" =>
        /\ ~HasRow(generations, last.job_id) => last.response = NotFound
        /\ /\ HasRow(generations, last.job_id)
           /\ ~Owns(last.user_id, last.guest_session_id,
                    generations[last.job_id])
           => last.response = NotFound

\* An anonymous caller asked for the job of another guest session.
C8_Witness ==
    /\ last.op = "get"
    /\ last.user_id = NULL
    /\ HasRow(generations, last.job_id)
    /\ generations[last.job_id].user_id = NULL
    /\ generations[last.job_id].guest_session_id # last.guest_session_id
    /\ last.response = NotFound

\* C9: for every caller and every scope value, every Generation of a list
\* response is owned by the caller's account or by its guest session.
C9_ListOnlyOwn ==
    last.op = "list" =>
        \A i \in 1..Len(last.generations) :
            Owns(last.user_id, last.guest_session_id,
                 generations[last.generations[i].id])

\* C10: a claim that immediately repeats the same claim transfers nothing and
\* leaves the table as it is, and no claim changes a row that is owned by an
\* account.
C10_ClaimIdempotent ==
    [][last'.op = "claim" =>
        /\ DOMAIN generations' = DOMAIN generations
        /\ \A id \in DOMAIN generations :
               generations[id].user_id # NULL
                   => generations'[id] = generations[id]
        /\ last'.again => last'.count = 0 /\ generations' = generations]_vars

\* The first claim transferred rows, the second none, and another account
\* owns a row.
C10_Witness ==
    /\ last.op = "claim"
    /\ last.again
    /\ last.first > 0
    /\ last.count = 0
    /\ \E id \in DOMAIN generations :
           generations[id].user_id \notin {NULL, last.user_id}


\* ---- claims about the job lifecycle ----

\* C11: once a Generation is owned by an account, in every later state in
\* which the row exists its user_id is the same and its guest_session_id is
\* null, whatever create-generation, claim, clear-guest-history and the
\* workers do.
C11_AccountOwnershipIsPermanent ==
    [][\A id \in DOMAIN generations \cap DOMAIN generations' :
           generations[id].user_id # NULL =>
               /\ generations'[id].user_id = generations[id].user_id
               /\ generations'[id].guest_session_id = NULL]_vars

\* A Generation created by a guest was claimed by an account and processed by
\* a worker, and then another account logged in from the same guest session.
C11_Witness ==
    /\ last.op = "claim"
    /\ \E id \in DOMAIN generations :
           /\ gen_req[id].user_id = NULL
           /\ generations[id].user_id \notin {NULL, last.user_id}
           /\ generations[id].guest_session_id = NULL
           /\ generations[id].status \in {"completed", "failed"}

\* C12: every persisted Generation has exactly one owner reference: exactly
\* one of user_id and guest_session_id is not null.
C12_ExactlyOneOwner ==
    \A id \in DOMAIN generations :
        (generations[id].user_id = NULL)
            # (generations[id].guest_session_id = NULL)

\* A logged-in caller, who also holds a guest cookie, created a Generation.
C12_Witness ==
    \E id \in DOMAIN generations :
        /\ gen_req[id].user_id # NULL
        /\ generations[id].user_id = gen_req[id].user_id
        /\ generations[id].guest_session_id = NULL


\* The workers that hold job j: they got it and have not finished with it.
Holders(j) == {w \in Workers : workers[w].pc # "get" /\ workers[w].job_id = j}

\* The positions of job j in the queue.
Queued(j) == {i \in 1..Len(job_queue) : job_queue[i] = j}

\* C13: every change of a Generation's status is queued->processing,
\* processing->completed or processing->failed, also when a step of the worker
\* raises.
C13_OnlyLifecycleTransitions ==
    [][\A id \in DOMAIN generations \cap DOMAIN generations' :
           generations'[id].status # generations[id].status =>
               <<generations[id].status, generations'[id].status>> \in
                   {<<"queued", "processing">>, <<"processing", "completed">>,
                    <<"processing", "failed">>}]_vars

PostFailed == {r \in Req : gen_req[r].pc = "post_failed"}

\* C18: when the storage write, the insert of the input asset or the enqueue
\* fails after the debit has committed, a compensating credit is issued: the
\* debited pool is back at its value before the request, so only the requests
\* that did not fail this way count as debits.
C18_PostCommitFailureIsCompensated ==
    /\ \A o \in Origins :
           EffectiveFree(o) =
               free0[o] - Cardinality(FreeSuccesses(o) \ PostFailed)
    /\ \A u \in Users :
           UserCredits(u) =
               bal0[u] - Cardinality(PaidSuccesses(u) \ PostFailed)

\* C19: a Generation a worker has failed, for whatever exception, has status
\* failed and a non-empty error_message.
C19_FailedHasErrorMessage ==
    \A id \in DOMAIN generations :
        generations[id].status = "failed" =>
            generations[id].error_message \notin {NULL, ""}

\* C20: no step of a worker, whether the job ends completed or failed,
\* changes the free_remaining of an origin or the balance of an account.
C20_WorkersLeaveCredits ==
    [][workers' # workers => UNCHANGED <<ip_credits, credits>>]_vars

\* A job paid from the free pool of its origin has failed and its worker is
\* waiting for the next job; the credit is still spent.
C20_Witness ==
    \E id \in DOMAIN generations :
        /\ generations[id].status = "failed"
        /\ Holders(id) = {}
        /\ dequeued[id] = 1
        /\ gen_req[id].ip_credit_used
        /\ EffectiveFree(gen_req[id].ip) = free0[gen_req[id].ip] - 1

C22_NoStatusChangeAfterShutdown ==
    [][job_tasks = {} =>
           /\ \A id \in DOMAIN generations \cap DOMAIN generations' :
                  generations'[id].status = generations[id].status
           /\ \A j \in Req : Queued(j) # {} => Queued(j)' # {}]_vars

\* The workers have been cancelled while one of them was processing a job: the
\* job is still processing.
C22_Witness ==
    \E id \in DOMAIN generations, w \in Workers :
        /\ job_tasks = {}
        /\ workers[w].pc = "cancelled"
        /\ workers[w].job_id = id
        /\ generations[id].status = "processing"

\* ---- claims about the guest sessions ----

\* The requests that have resolved their guest session.
Resolved == {q \in Res : gs_req[q].pc = "done"}

\* C25: after a rotation the new token resolves to the session id the old
\* token had, until it is rotated itself, and the old token never resolves to
\* that id again: neither in the table nor for a request that came after the
\* rotation.
C25_RotationKeepsSessionId ==
    \A r \in rotations :
        /\ (\A r2 \in rotations : r2.old # r.new)
               => /\ HasRow(guest_sessions, r.new)
                  /\ guest_sessions[r.new] = r.id
        /\ HasRow(guest_sessions, r.old) => guest_sessions[r.old] # r.id
        /\ \A q \in Resolved :
               /\ (/\ r \in gs_req[q].rots
                   /\ gs_req[q].token # NULL
                   /\ HashToken(gs_req[q].token) = r.old)
                      => gs_req[q].guest_session_id # r.id
               /\ (/\ r \in gs_req[q].rots
                   /\ gs_req[q].token # NULL
                   /\ HashToken(gs_req[q].token) = r.new
                   /\ \A r2 \in gs_req[q].rots : r2.old # r.new)
                      => gs_req[q].guest_session_id = r.id

\* The token of session g1 has been rotated; since then one request has sent
\* the new token and got g1, and another has sent the old one and got a
\* session of its own.
C25_Witness ==
    \E r \in rotations, q, p \in Resolved :
        /\ r.id = "g1"
        /\ r \in gs_req[q].rots /\ r \in gs_req[p].rots
        /\ gs_req[q].token # NULL /\ gs_req[p].token # NULL
        /\ HashToken(gs_req[q].token) = r.new
        /\ gs_req[q].guest_session_id = "g1"
        /\ HashToken(gs_req[p].token) = r.old
        /\ gs_req[p].guest_session_id \notin {NULL, "g1"}

\* C26: as long as no token is rotated, the requests that send the same
\* cookie, one after the other or concurrently, all resolve to the same
\* session id.
C26_ResolveIsIdempotent ==
    rotations = {} =>
        \A q, p \in Resolved :
            (gs_req[q].token # NULL /\ gs_req[q].token = gs_req[p].token)
                => gs_req[q].guest_session_id = gs_req[p].guest_session_id

\* ---- claims about the worker pool ----

\* C31: the jobs are dequeued in the order of their enqueue: a job that a
\* worker has dequeued, or whose status a worker has changed, was enqueued
\* after dequeued jobs only.
C31_DequeueInEnqueueOrder ==
    /\ \A i, k \in 1..Len(enqueued) :
           (i < k /\ dequeued[enqueued[k]] > 0) => dequeued[enqueued[i]] > 0
    /\ \A id \in DOMAIN generations :
           generations[id].status # "queued" => dequeued[id] > 0

\* Job 2 was enqueued before job 1 and is the one that has been dequeued; job
\* 1 waits in the queue.
C31_Witness ==
    /\ Len(enqueued) >= 2
    /\ enqueued[1] = 2 /\ enqueued[2] = 1
    /\ dequeued[2] = 1 /\ dequeued[1] = 0
    /\ job_queue # <<>> /\ Head(job_queue) = 1
    /\ generations[2].status = "processing"

\* A task that is in job_tasks and has not ended.
Live(w) == w \in job_tasks /\ workers[w].pc \notin {"cancelled", "dead"}

\* C32: the first start_workers after a stop creates worker_count tasks, a
\* repeated start_workers adds none, only live tasks process jobs, so at most
\* that many jobs are processed at the same time, and after stop_workers no
\* task is live.
C32_PoolIsBounded ==
    [][/\ (last'.op = "start" /\ job_tasks = {})
            => Cardinality(job_tasks') = last'.worker_count
       /\ job_tasks # {} => job_tasks' \in {job_tasks, {}}
       /\ \A w \in Workers : workers'[w].pc \notin {"cancelled", "dead"}
                                  => Live(w)'
       /\ Cardinality({j \in Req : Holders(j)' # {}
                                     /\ \E w \in Holders(j)' : Live(w)'})
              <= Cardinality(job_tasks')
       /\ job_tasks' = {} => \A w \in Workers : ~Live(w)']_vars

\* A pool of one task, started by start_workers(1) and asked to start again
\* with another worker_count, processes a job while another job waits.
C32_Witness ==
    /\ last.op = "start"
    /\ last.worker_count = JOB_WORKERS
    /\ Cardinality(job_tasks) = 1
    /\ \E w \in Workers : Live(w) /\ workers[w].pc = "run"
    /\ job_queue # <<>>

\* C37: under fair scheduling of the workers and without shutdown every
\* enqueued job ends completed or failed.
C37_EveryJobEnds ==
    \A j \in Req :
        (\E i \in 1..Len(enqueued) : enqueued[i] = j)
            ~> (generations[j].status \in {"completed", "failed"})

\* C33: for every Generation completed_at is set if and only if its status is
\* completed, error_message is null unless its status is failed, and a
\* completed Generation has an output asset.
C33_StatusFieldsAgree ==
    \A id \in DOMAIN generations :
        /\ (generations[id].completed_at # NoTime)
               <=> (generations[id].status = "completed")
        /\ generations[id].status # "failed"
               => generations[id].error_message = NULL
        /\ generations[id].status = "completed"
               => <<id, "output">> \in generation_assets

\* A Generation a worker has completed, and its worker is back at the queue.
C33_Witness ==
    \E id \in DOMAIN generations :
        /\ generations[id].status = "completed"
        /\ generations[id].completed_at = <<now>>
        /\ generations[id].error_message = NULL
        /\ <<id, "output">> \in generation_assets
        /\ dequeued[id] = 1
        /\ Holders(id) = {}

\* ---- claims about the idempotency boundary ----

\* The purchase rows of the ledger for the external session id s.
PurchaseFor(s) == {i \in LedgerFor(s) : credit_ledger[i].reason = "purchase"}

\* C36: in every committed state the ledger holds a purchase row for an
\* external session id if and only if the Payment of that session is
\* fulfilled, and every fulfilled Payment has fulfilled_at set.
C36_LedgerRowIffFulfilled ==
    \A s \in SessIds :
        /\ (PurchaseFor(s) # {}) <=> Fulfilled(s)
        /\ Fulfilled(s) => payments[s].fulfilled_at

\* The Payment of a session is fulfilled and has its purchase row, after a
\* delivery of the event that crashed before its commit.
C36_Witness ==
    \E s \in SessIds, f, g \in Ful :
        /\ Fulfilled(s)
        /\ payments[s].fulfilled_at
        /\ Cardinality(PurchaseFor(s)) = 1
        /\ ful[f].sid = s /\ ful[f].result = "crashed_after_ledger"
        /\ ful[g].sid = s /\ ful[g].result = "fulfilled"

\* C39: a confirmation and a failure or expiry of one session end in the same
\* state in both orders.  Delivered after the confirmation, the failure
\* changes neither the fulfilled Payment, nor the ledger rows of the session,
\* nor any balance.  Delivered before it, the failure leaves a Payment that
\* is failed or canceled, and a fulfillment that finds this Payment and does
\* not crash ends with the Payment fulfilled, one ledger row for the session
\* and the balance of the Payment's account raised by the Payment's credits.
C39_EventOrderIsIrrelevant ==
    [][\A s \in SessIds :
          /\ Fulfilled(s) =>
                /\ payments'[s] = payments[s]
                /\ LedgerFor(s)' = LedgerFor(s)
                /\ (last'.op = "mark" /\ last'.sid = s) =>
                       credits' = credits /\ credit_ledger' = credit_ledger
          /\ \A f \in Ful :
                (/\ HoldsPayment(f, s)
                 /\ HasRow(payments, s)
                 /\ payments[s].status \in {"failed", "canceled"}
                 /\ ful'[f].pc = "done"
                 /\ ful'[f].result \notin {"crashed", "crashed_after_ledger"})
                   => /\ ful'[f].result = "fulfilled"
                      /\ Fulfilled(s)'
                      /\ Cardinality(LedgerFor(s)') = 1
                      /\ LedgerFor(s) = {}
                      /\ UserCredits(payments[s].user_id)' =
                             UserCredits(payments[s].user_id)
                                + payments[s].credits
                      /\ \A v \in Users \ {payments[s].user_id} :
                             UserCredits(v)' = UserCredits(v)]_vars

\* The failure came first: the fulfillment has found the Payment failed or
\* canceled and has committed it fulfilled, with its credits added once.
C39_Witness ==
    /\ last.op = "status"
    /\ last.new = "fulfilled"
    /\ last.found \in {"failed", "canceled"}
    /\ Fulfilled(last.sid)
    /\ Cardinality(LedgerFor(last.sid)) = 1
    /\ UserCredits(payments[last.sid].user_id)
           = bal0[payments[last.sid].user_id] + payments[last.sid].credits

\* C38: a fulfillment that finds the Payment row of its session credits the
\* account of that row with the credits of that row, whatever the metadata of
\* the event carries; no other balance changes and the row keeps its account
\* and its credits.
C38_ExistingPaymentDecides ==
    [][\A f \in Ful :
          (/\ ful[f].pc = "fulfill"
           /\ ful'[f].result = "fulfilled"
           /\ HasRow(payments, ful[f].sid))
             => LET row == payments[ful[f].sid] IN
                /\ UserCredits(row.user_id)'
                       = UserCredits(row.user_id) + row.credits
                /\ \A v \in Users \ {row.user_id} :
                       UserCredits(v)' = UserCredits(v)
                /\ payments'[ful[f].sid].user_id = row.user_id
                /\ payments'[ful[f].sid].credits = row.credits
                /\ credit_ledger' =
                       Append(credit_ledger,
                              LedgerRow(row.user_id, row.credits, "purchase",
                                        ful[f].sid))]_vars

\* The Payment that checkout created for one account is fulfilled by an event
\* whose valid metadata names another account and other credits: the account
\* of the row has the credits of the row, the other account has none.
C38_Witness ==
    \E s \in SessIds :
        /\ Fulfilled(s)
        /\ MetaValid(meta[s])
        /\ meta[s].user_id \in Users \ {payments[s].user_id}
        /\ IntOf(meta[s].credits) # payments[s].credits
        /\ UserCredits(payments[s].user_id)
               = bal0[payments[s].user_id] + payments[s].credits
        /\ UserCredits(meta[s].user_id) = bal0[meta[s].user_id]

\* ---- claims about the accounts' balances ----

\* The sum of the deltas of the ledger rows of the account u.
LedgerSum(u) ==
    SumSet(LAMBDA i : credit_ledger[i].delta,
           {i \in 1..Len(credit_ledger) : credit_ledger[i].user_id = u})

\* C35: after any interleaving of registration, payment fulfillment and
\* create-generation, the committed balance of every account is the sum of
\* the deltas of its ledger rows less the number of its successful paid
\* debits, and is not negative.
C35_BalanceIsLedgerLessDebits ==
    \A u \in Users :
        /\ UserCredits(u) = LedgerSum(u) - Cardinality(PaidSuccesses(u))
        /\ UserCredits(u) >= 0

\* The account has its signup bonus and a purchase in the ledger and has
\* paid for two Generations.
C35_Witness ==
    \E i, k \in 1..Len(credit_ledger) :
        /\ credit_ledger[i] =
               LedgerRow("u1", SIGNUP_FREE_CREDITS, "signup_bonus", NULL)
        /\ credit_ledger[k].reason = "purchase"
        /\ credit_ledger[k].user_id = "u1"
        /\ Cardinality(PaidSuccesses("u1")) = 2
        /\ credits["u1"] = SIGNUP_FREE_CREDITS + credit_ledger[k].delta - 2

\* ---- claims about the retention cleanup ----

\* The guest sessions not seen within the retention period of which no
\* Generation is owned by an account.
Expired(days) ==
    {id \in DOMAIN last_seen_at :
        /\ last_seen_at[id] < now - days
        /\ \A g \in DOMAIN generations :
               generations[g].guest_session_id = id
                   => generations[g].user_id = NULL}

\* C34: a run of the cleanup deletes every guest session not seen within the
\* retention period that owns no Generation of an account, and the Generations
\* it owns, whatever Generations of accounts the table holds; it deletes no
\* Generation of an account and no other guest session.
C34_CleanupDeletesExpired ==
    [][last'.op = "cleanup" =>
          /\ DOMAIN last_seen_at' =
                 DOMAIN last_seen_at \ Expired(GUEST_RETENTION_DAYS)
          /\ SessionIds(guest_sessions') = DOMAIN last_seen_at'
          /\ DOMAIN generations' =
                 {g \in DOMAIN generations :
                     generations[g].guest_session_id
                         \notin Expired(GUEST_RETENTION_DAYS)}
          /\ \A g \in DOMAIN generations' :
                 generations'[g] = generations[g]]_vars

\* ---- claims about the pages of list-generations ----

\* The number of times a walk has returned the Generation id.
Visits(id) ==
    Cardinality({i \in 1..Len(last.visited) : last.visited[i] = id})

\* C40: when the walk has ended with an empty page, every Generation of the
\* caller has been returned exactly once, and no other Generation has been
\* returned, also when Generations share their created_at.
C40_WalkVisitsEachOnce ==
    (last.op = "page" /\ Len(last.generations) = 0) =>
        \A id \in DOMAIN generations :
            Visits(id) =
                IF id \in ScopeMatches("auto", last.user_id,
                                       last.guest_session_id)
                THEN 1 ELSE 0


\* The page of the last response: at most min(limit, 100) items, in descending
\* order of createdAt, and the returned cursor is the createdAt of its last
\* item.
PageIsClamped ==
    LET items == last.generations IN
    /\ Len(items) <= (IF last.limit < LIST_MAX THEN last.limit ELSE LIST_MAX)
    /\ \A i, j \in 1..Len(items) :
           i < j => FromIso(items[i].createdAt) >= FromIso(items[j].createdAt)
    /\ Len(items) > 0 => last.next_cursor = items[Len(items)].createdAt

\* Every item of the last response is strictly older than the request's cursor.
PageIsBelowCursor ==
    /\ last.cursor \in IsoStrings
    /\ \A i \in 1..Len(last.generations) :
           FromIso(last.generations[i].createdAt) < FromIso(last.cursor)

ConsumedFree(o) ==
    SumSet(LAMBDA c : con[c].amount,
           {c \in Cons : /\ con[c].pc = "done" /\ con[c].ip = o
                         /\ con[c].response.code = 200})
SpentFree(o) == ConsumedFree(o) + Cardinality(FreeSuccesses(o))

\* No operation is between its first and its last statement.
ConsumeQuiescent ==
    /\ \A c \in Cons : con[c].pc \in {"idle", "done"}
    /\ \A r \in Req : gen_req[r].pc \notin InTx

\* C30: whatever the interleaving of consume calls with each other and with
\* create-generation debits, the free credits left are those of a serial
\* execution: the initial ones less those the successful operations spent.
C30_ConsumeIsSerializable ==
    ConsumeQuiescent =>
        EffectiveFree("ip1") + SpentFree("ip1") = free0["ip1"]

\* ---- claims about the accounts and the guest history ----

\* The writes of the execution x of register: the row of users, the row of
\* credits, and the transfer of every Generation of the guest session.
RegWroteUser(x) == reg[x].user_id \in users
RegWroteCredits(x) == HasRow(credits, reg[x].user_id)
RegClaimed(x) == ClaimableRows(reg[x].user_id, reg[x].guest_session_id) = {}

\* C27: a registration that crashes or aborts at any step leaves either all of
\* its writes (account row, credit row, transfer of the guest session's
\* Generations) or none of them.
C27_RegisterIsAllOrNothing ==
    \A x \in Regs :
        reg[x].pc = "crashed" =>
            \/ RegWroteUser(x) /\ RegWroteCredits(x) /\ RegClaimed(x)
            \/ ~RegWroteUser(x) /\ ~RegWroteCredits(x)

\* C28: clear-guest-history of a guest session deletes the Generations whose
\* guest_session_id is that session and no other: the Generations of accounts,
\* also those claimed from the session, and those of other guest sessions
\* stay as they are.
C28_ClearDeletesOnlyOwnSession ==
    [][rotations' # rotations =>
           \A r \in rotations' \ rotations :
               /\ DOMAIN generations' =
                      {id \in DOMAIN generations :
                          generations[id].guest_session_id # r.id}
               /\ \A id \in DOMAIN generations' :
                      generations'[id] = generations[id]]_vars

\* A new account has claimed a Generation of the guest session g1, the history
\* of g1 has then been cleared, and the claimed Generation and one of the
\* guest session g2 are still there.
C28_Witness ==
    \E r \in rotations, x \in Regs, id, other \in DOMAIN generations :
        /\ r.id = "g1"
        /\ reg[x].pc = "done"
        /\ generations[id].user_id = reg[x].user_id
        /\ reg[x].user_id # "u1"
        /\ generations[other].guest_session_id = "g2"
        /\ \A i \in DOMAIN generations :
               generations[i].guest_session_id # "g1"

====
